---- MODULE Spec2Model ----
(***************************************************************************)
(* Planetary explorer: the coordinate projection and alignment-correction  *)
(* engine (longitude conventions, simple-cylindrical projection, alignment *)
(* corrections, tile addressing).                                          *)
(*                                                                         *)
(* Numbers are exact fixed-point integers, so the model follows the        *)
(* arithmetic of the source without floating-point rounding:               *)
(*   angles (latitude, longitude, angular offsets)  1/16 degree            *)
(*   pixel coordinates and pixel offsets            1/720 pixel            *)
(*   u (normalized east-west)                       1/5760                 *)
(*   v (normalized north-south)                     1/2880                 *)
(*   t (interpolation parameter)                    1/4                    *)
(* so that u = lon / 360 and v = (90 - lat) / 180 keep their numerals and  *)
(* change only their unit.  Zoom levels, scales and tile indices are plain *)
(* integers.                                                               *)
(* Every division of the source is exact on the explored inputs (Div has   *)
(* no value otherwise).  An optional field of a source record is a field   *)
(* that the model record does or does not have; `undefined` is the record  *)
(* with no field.                                                          *)
(***************************************************************************)
EXTENDS Integers, Sequences, FiniteSets, TLC

VARIABLES
  \* the operation applied to sampled inputs, its arguments and its result
  call, args, ret,
  \* PlanetaryMap: the props, the viewer refs and the pending viewer set-ups
  baseDatasetId, splitLayerId, splitViewEnabled,
  viewerRef, splitViewerRef, viewerSetups, splitSetups,
  \* the gazetteer: TileViewer's body, search text, debounce timer, loads in
  \* flight and features; PlanetaryMap's featuresCache and imports in flight
  selectedBody, searchText, debounceTimer, pendingLoads, viewerFeatures,
  featuresCache, pendingImports,
  \* TileViewer's alignment overrides: the selected layer, the draft of the
  \* offset form, every corrections map created so far (objects) with the
  \* one that the state alignmentOverrides refers to, correctionsRef.current,
  \* the stored JSON, and the last operation committed on each layer
  selectedLayerId, alignmentDraft, objects, alignmentOverrides, correctionsRef,
  localStorage, committed,
  \* TileViewer's viewers: the layer id of the configuration effect, the
  \* state layerConfig, configuration fetches and viewer set-ups in flight,
  \* and the live viewer that each of the two viewer effects created on the
  \* container viewerRef.current
  tileLayerId, tileLayerConfig, configFetches, osdSetups, osdViewer,
  templateSetups, mainViewer,
  \* useAiDescription: the props, the state, the debounce timer, the
  \* requests in flight and the module's descriptionCache
  featureKey, meta, aiEnabled, aiState, timeoutId, requests, descriptionCache

callVars == <<call, args, ret>>

mapVars == <<baseDatasetId, splitLayerId, splitViewEnabled,
             viewerRef, splitViewerRef, viewerSetups, splitSetups>>

loadVars == <<selectedBody, searchText, debounceTimer, pendingLoads, viewerFeatures,
              featuresCache, pendingImports>>

overrideVars == <<selectedLayerId, alignmentDraft, objects, alignmentOverrides,
                  correctionsRef, localStorage, committed>>

tileVars == <<tileLayerId, tileLayerConfig, configFetches, osdSetups, osdViewer,
              templateSetups, mainViewer>>

aiVars == <<featureKey, meta, aiEnabled, aiState, timeoutId, requests,
            descriptionCache>>

componentVars == <<mapVars, loadVars, overrideVars, tileVars, aiVars>>

\* what a step of one component leaves alone
exceptMap == <<callVars, loadVars, overrideVars, tileVars, aiVars>>

exceptLoads == <<callVars, mapVars, overrideVars, tileVars, aiVars>>

exceptOverrides == <<callVars, mapVars, loadVars, tileVars, aiVars>>

exceptViewers == <<callVars, mapVars, loadVars, overrideVars, aiVars>>

exceptAi == <<callVars, mapVars, loadVars, overrideVars, tileVars>>

vars == <<callVars, componentVars>>

(***************************************************************************)
(* Bounds of the explored inputs.                                          *)
(***************************************************************************)
\* longitudes k * 15 degrees for k in -GridN .. GridN
GridN == 36
\* zoom breakpoint lists hold at most MaxBreakpoints entries
MaxBreakpoints == 2
\* latitude band lists hold at most MaxBands entries
MaxBands == 2
\* pyramid levels 0 .. MaxLevel
MaxLevel == 2
\* tile columns -MaxCol .. MaxCol
MaxCol == 5
\* latitudes k * 15 degrees for k in -LatN .. LatN
LatN == 7
\* zoom levels 0 .. MaxZoom
MaxZoom == 8
\* feature lists hold at most MaxFeatures features
MaxFeatures == 3
\* at most MaxPending viewer set-ups of one kind await their import
MaxPending == 2
\* at most MaxLoads gazetteer loads of one component are in flight
MaxLoads == 2
\* at most MaxObjects corrections maps are created
MaxObjects == 3

(***************************************************************************)
(* Exact arithmetic on JavaScript numbers.                                 *)
(***************************************************************************)
\* n degrees, in angle units
Deg(n) == 16 * n

\* n pixels, in pixel units
Px(n) == 720 * n

\* a / b, defined when the quotient is exact
Div(a, b) == CHOOSE q \in {a \div b} : q * b = a

\* F applied to the value of x: a local constant, computed once
Bind(x, F(_)) == CHOOSE r \in {F(v) : v \in {x}} : TRUE

\* JavaScript a % b (b > 0): the remainder has the sign of the dividend
JsRem(a, b) == Bind(a, LAMBDA n : IF n >= 0 THEN n % b ELSE -((-n) % b))

MathMax(a, b) == IF a < b THEN b ELSE a

MathMin(a, b) == IF b < a THEN b ELSE a

\* Math.pow(2, n) for a natural n
RECURSIVE Pow2(_)
Pow2(n) == IF n = 0 THEN 1 ELSE 2 * Pow2(n - 1)

\* a number that may not be finite: <<n>> for the finite n, NaN, Infinity and
\* -Infinity
NaN == <<>>

Infinity == <<1, 0>>

NegInfinity == <<-1, 0>>

isFinite(value) == Len(value) = 1

\* -a
negated(a) ==
  IF isFinite(a) THEN <<-a[1]>>
  ELSE IF a = Infinity THEN NegInfinity ELSE IF a = NegInfinity THEN Infinity ELSE NaN

\* a + n and a * n for a finite n
plus(a, n) == IF isFinite(a) THEN <<a[1] + n>> ELSE a

times(a, n) ==
  IF isFinite(a) THEN <<a[1] * n>>
  ELSE IF a = NaN \/ n = 0 THEN NaN ELSE IF n > 0 THEN a ELSE negated(a)

\* a % n: NaN unless a is finite
remainder(a, n) == IF isFinite(a) THEN <<JsRem(a[1], n)>> ELSE NaN

\* Math.max(n, a) and Math.min(n, a): NaN for NaN
mathMax(n, a) ==
  IF isFinite(a) THEN <<MathMax(n, a[1])>> ELSE IF a = NegInfinity THEN <<n>> ELSE a

mathMin(n, a) ==
  IF isFinite(a) THEN <<MathMin(n, a[1])>> ELSE IF a = Infinity THEN <<n>> ELSE a

\* r?.f ?? default
Opt(r, f, default) == IF f \in DOMAIN r THEN r[f] ELSE default

\* the value undefined, as a record: it has no field
Undefined == <<>>

\* a parameter of type number | undefined is <<>> or <<n>>
None == <<>>

Some(n) == <<n>>

(***************************************************************************)
(* geodesy.ts: longitude conventions                                       *)
(***************************************************************************)
LongitudeConvention == {"east-180", "east-360", "west-360"}

wrapLongitude180(value) ==
  Bind(JsRem(JsRem(value + Deg(180), Deg(360)) + Deg(360), Deg(360)) - Deg(180),
       LAMBDA wrapped : IF wrapped = Deg(-180) THEN Deg(180) ELSE wrapped)

wrapLongitude360(value) == JsRem(JsRem(value, Deg(360)) + Deg(360), Deg(360))

toEast180(value, from) ==
  CASE from = "east-180" -> wrapLongitude180(value)
    [] from = "east-360" ->
         Bind(wrapLongitude360(value),
              LAMBDA wrapped : IF wrapped > Deg(180) THEN wrapped - Deg(360) ELSE wrapped)
    [] from = "west-360" ->
         LET wrapped == wrapLongitude360(value)
         IN  wrapLongitude180(-wrapped)
    [] OTHER -> wrapLongitude180(value)

\* a faulty variant of fromEast180: the west-360 branch does not negate
fromEast180NotNegated(value, to) ==
  Bind(wrapLongitude180(value), LAMBDA east180 :
    CASE to = "east-180" -> east180
      [] to = "east-360" ->
           LET adjusted == IF east180 < 0 THEN east180 + Deg(360) ELSE east180
           IN  wrapLongitude360(adjusted)
      [] to = "west-360" -> wrapLongitude360(east180)
      [] OTHER -> east180)

fromEast180(value, to) ==
  Bind(wrapLongitude180(value), LAMBDA east180 :
    CASE to = "east-180" -> east180
      [] to = "east-360" ->
           LET adjusted == IF east180 < 0 THEN east180 + Deg(360) ELSE east180
           IN  wrapLongitude360(adjusted)
      [] to = "west-360" -> wrapLongitude360(-east180)
      [] OTHER -> east180)

convertLongitude(value, from, to) ==
  IF from = to
    THEN IF to = "east-180" THEN wrapLongitude180(value) ELSE wrapLongitude360(value)
    ELSE fromEast180(toEast180(value, from), to)

normalizeLongitude(value, convention) == convertLongitude(value, convention, convention)

(***************************************************************************)
(* constants.ts and datasets.ts: bodies and the dataset registry           *)
(***************************************************************************)
PlanetaryBodyKey == {"moon", "mars", "mercury", "ceres", "vesta"}

PLANETARY_BODIES ==
  [b \in PlanetaryBodyKey |->
     [id |-> b,
      meanRadiusMeters |->
        CASE b = "moon" -> 1737400 [] b = "mars" -> 3389500 [] b = "mercury" -> 2439700
          [] b = "ceres" -> 473000 [] b = "vesta" -> 262700,
      primeMeridianOffsetDeg |-> Deg(0),
      defaultLongitudeDirection |-> "east",
      defaultLongitudeDomain |-> 360]]

TREK_COMPAT_KEY(body) == <<body, "-simplecyl-256">>

SOLAR_SYSTEM_DATASETS == <<
  [id |-> "moon:lro_wac_global", body |-> "moon", kind |-> "base",
   template |-> <<"https://", "trek.nasa.gov", "/tiles/Moon/EQ/LRO_WAC_Mosaic_Global_303ppd_v02/1.0.0/default/default028mm/", "{z}", "/", "{row}", "/", "{col}", ".jpg">>,
   compatibilityKey |-> TREK_COMPAT_KEY("moon"),
   projection |-> [centralMeridianDeg |-> Deg(0), primeMeridianOffsetDeg |-> Deg(0),
                   lonConvention |-> "east-360"],
   tiling |-> [scheme |-> "wmts", yAxis |-> "north-down", tileSize |-> 256, minZoom |-> 0, maxZoom |-> 6]],
  [id |-> "moon:lro_nac_apollo", body |-> "moon", kind |-> "hires",
   template |-> <<"https://", "trek.nasa.gov", "/tiles/Moon/EQ/LRO_NAC_ApolloLandingSites_100cm/1.0.0/default/default028mm/", "{z}", "/", "{row}", "/", "{col}", ".jpg">>,
   compatibilityKey |-> TREK_COMPAT_KEY("moon"),
   projection |-> [centralMeridianDeg |-> Deg(0), primeMeridianOffsetDeg |-> Deg(0),
                   lonConvention |-> "east-360"],
   tiling |-> [scheme |-> "wmts", yAxis |-> "north-down", tileSize |-> 256, minZoom |-> 2, maxZoom |-> 12]],
  [id |-> "moon:lro_lola_elevation", body |-> "moon", kind |-> "elevation",
   template |-> <<"https://", "trek.nasa.gov", "/tiles/Moon/EQ/LRO_LOLA_ClrShade_Global_128ppd_v04/1.0.0/default/default028mm/", "{z}", "/", "{row}", "/", "{col}", ".png">>,
   compatibilityKey |-> TREK_COMPAT_KEY("moon"),
   projection |-> [centralMeridianDeg |-> Deg(0), primeMeridianOffsetDeg |-> Deg(0),
                   lonConvention |-> "east-360"],
   tiling |-> [scheme |-> "wmts", yAxis |-> "north-down", tileSize |-> 256, minZoom |-> 0, maxZoom |-> 9]],
  [id |-> "moon:lro_diviner_rock", body |-> "moon", kind |-> "overlay",
   template |-> <<"https://", "trek.nasa.gov", "/tiles/Moon/EQ/LRO_Diviner_Derived_RockAbundance_Global_128ppd_v01/1.0.0/default/default028mm/", "{z}", "/", "{row}", "/", "{col}", ".png">>,
   compatibilityKey |-> TREK_COMPAT_KEY("moon"),
   projection |-> [centralMeridianDeg |-> Deg(0), primeMeridianOffsetDeg |-> Deg(0),
                   lonConvention |-> "east-360"],
   tiling |-> [scheme |-> "wmts", yAxis |-> "north-down", tileSize |-> 256, minZoom |-> 0, maxZoom |-> 8]],
  [id |-> "moon:grail_gravity", body |-> "moon", kind |-> "overlay",
   template |-> <<"https://", "trek.nasa.gov", "/tiles/Moon/EQ/GRAIL_LGRS_Freair_Gravity_Global_128ppd_v03/1.0.0/default/default028mm/", "{z}", "/", "{row}", "/", "{col}", ".png">>,
   compatibilityKey |-> TREK_COMPAT_KEY("moon"),
   projection |-> [centralMeridianDeg |-> Deg(0), primeMeridianOffsetDeg |-> Deg(0),
                   lonConvention |-> "east-360"],
   tiling |-> [scheme |-> "wmts", yAxis |-> "north-down", tileSize |-> 256, minZoom |-> 0, maxZoom |-> 8]],
  [id |-> "mars:mars_mgs_mola", body |-> "mars", kind |-> "base",
   template |-> <<"https://", "trek.nasa.gov", "/tiles/Mars/EQ/Mars_MGS_MOLA_ClrShade_merge_global_463m/1.0.0/default/default028mm/", "{z}", "/", "{row}", "/", "{col}", ".jpg">>,
   compatibilityKey |-> TREK_COMPAT_KEY("mars"),
   projection |-> [centralMeridianDeg |-> Deg(0), primeMeridianOffsetDeg |-> Deg(0),
                   lonConvention |-> "east-360"],
   tiling |-> [scheme |-> "wmts", yAxis |-> "north-down", tileSize |-> 256, minZoom |-> 0, maxZoom |-> 8]],
  [id |-> "mars:mars_viking_mosaic", body |-> "mars", kind |-> "base",
   template |-> <<"https://", "trek.nasa.gov", "/tiles/Mars/EQ/Mars_Viking_MDIM21_ClrMosaic_global_232m/1.0.0/default/default028mm/", "{z}", "/", "{row}", "/", "{col}", ".jpg">>,
   compatibilityKey |-> TREK_COMPAT_KEY("mars"),
   projection |-> [centralMeridianDeg |-> Deg(0), primeMeridianOffsetDeg |-> Deg(0),
                   lonConvention |-> "east-360"],
   tiling |-> [scheme |-> "wmts", yAxis |-> "north-down", tileSize |-> 256, minZoom |-> 0, maxZoom |-> 8]],
  [id |-> "mars:mars_hirise", body |-> "mars", kind |-> "hires",
   template |-> <<"https://", "trek.nasa.gov", "/tiles/Mars/EQ/Mars_HiRISE_Mosaic_Global_256ppd/1.0.0/default/default028mm/", "{z}", "/", "{row}", "/", "{col}", ".jpg">>,
   compatibilityKey |-> TREK_COMPAT_KEY("mars"),
   projection |-> [centralMeridianDeg |-> Deg(0), primeMeridianOffsetDeg |-> Deg(0),
                   lonConvention |-> "east-360"],
   tiling |-> [scheme |-> "wmts", yAxis |-> "north-down", tileSize |-> 256, minZoom |-> 0, maxZoom |-> 12]],
  [id |-> "mars:mars_ctx_mosaic", body |-> "mars", kind |-> "overlay",
   template |-> <<"https://", "trek.nasa.gov", "/tiles/Mars/EQ/Mars_MRO_CTX_mosaic_beta01_200ppd/1.0.0/default/default028mm/", "{z}", "/", "{row}", "/", "{col}", ".jpg">>,
   compatibilityKey |-> TREK_COMPAT_KEY("mars"),
   projection |-> [centralMeridianDeg |-> Deg(0), primeMeridianOffsetDeg |-> Deg(0),
                   lonConvention |-> "east-360"],
   tiling |-> [scheme |-> "wmts", yAxis |-> "north-down", tileSize |-> 256, minZoom |-> 0, maxZoom |-> 9]],
  [id |-> "mars:mars_thermal_inertia", body |-> "mars", kind |-> "overlay",
   template |-> <<"https://", "trek.nasa.gov", "/tiles/Mars/EQ/Mars_MGS_TES_ThermalInertia_mosaic_global_32ppd_v02/1.0.0/default/default028mm/", "{z}", "/", "{row}", "/", "{col}", ".png">>,
   compatibilityKey |-> TREK_COMPAT_KEY("mars"),
   projection |-> [centralMeridianDeg |-> Deg(0), primeMeridianOffsetDeg |-> Deg(0),
                   lonConvention |-> "east-360"],
   tiling |-> [scheme |-> "wmts", yAxis |-> "north-down", tileSize |-> 256, minZoom |-> 0, maxZoom |-> 7]],
  [id |-> "mercury:messenger_mdis_basemap", body |-> "mercury", kind |-> "base",
   template |-> <<"https://", "trek.nasa.gov", "/tiles/Mercury/EQ/Mercury_MESSENGER_MDIS_Basemap_EnhancedColor_Mosaic_Global_665m/1.0.0/default/default028mm/", "{z}", "/", "{row}", "/", "{col}", ".jpg">>,
   compatibilityKey |-> TREK_COMPAT_KEY("mercury"),
   projection |-> [centralMeridianDeg |-> Deg(0), primeMeridianOffsetDeg |-> Deg(0),
                   lonConvention |-> "east-360"],
   tiling |-> [scheme |-> "wmts", yAxis |-> "north-down", tileSize |-> 256, minZoom |-> 1, maxZoom |-> 7]],
  [id |-> "mercury:messenger_global_mosaic", body |-> "mercury", kind |-> "base",
   template |-> <<"https://", "trek.nasa.gov", "/tiles/Mercury/EQ/MESSENGER_MDIS_Mosaic_Global_166m_v02/1.0.0/default/default028mm/", "{z}", "/", "{row}", "/", "{col}", ".jpg">>,
   compatibilityKey |-> TREK_COMPAT_KEY("mercury"),
   projection |-> [centralMeridianDeg |-> Deg(0), primeMeridianOffsetDeg |-> Deg(0),
                   lonConvention |-> "east-360"],
   tiling |-> [scheme |-> "wmts", yAxis |-> "north-down", tileSize |-> 256, minZoom |-> 1, maxZoom |-> 8]],
  [id |-> "mercury:messenger_bdr", body |-> "mercury", kind |-> "overlay",
   template |-> <<"https://", "trek.nasa.gov", "/tiles/Mercury/EQ/MESSENGER_MDIS_BDR_Mosaic_Global_166m_v01/1.0.0/default/default028mm/", "{z}", "/", "{row}", "/", "{col}", ".jpg">>,
   compatibilityKey |-> TREK_COMPAT_KEY("mercury"),
   projection |-> [centralMeridianDeg |-> Deg(0), primeMeridianOffsetDeg |-> Deg(0),
                   lonConvention |-> "east-360"],
   tiling |-> [scheme |-> "wmts", yAxis |-> "north-down", tileSize |-> 256, minZoom |-> 1, maxZoom |-> 8]],
  [id |-> "mercury:messenger_elevation", body |-> "mercury", kind |-> "elevation",
   template |-> <<"https://", "trek.nasa.gov", "/tiles/Mercury/EQ/MESSENGER_MLA_DEM_Global_665m_v01/1.0.0/default/default028mm/", "{z}", "/", "{row}", "/", "{col}", ".png">>,
   compatibilityKey |-> TREK_COMPAT_KEY("mercury"),
   projection |-> [centralMeridianDeg |-> Deg(0), primeMeridianOffsetDeg |-> Deg(0),
                   lonConvention |-> "east-360"],
   tiling |-> [scheme |-> "wmts", yAxis |-> "north-down", tileSize |-> 256, minZoom |-> 1, maxZoom |-> 7]],
  [id |-> "mercury:messenger_slope", body |-> "mercury", kind |-> "overlay",
   template |-> <<"https://", "trek.nasa.gov", "/tiles/Mercury/EQ/MESSENGER_MLA_Slopes_Global_665m_v01/1.0.0/default/default028mm/", "{z}", "/", "{row}", "/", "{col}", ".png">>,
   compatibilityKey |-> TREK_COMPAT_KEY("mercury"),
   projection |-> [centralMeridianDeg |-> Deg(0), primeMeridianOffsetDeg |-> Deg(0),
                   lonConvention |-> "east-360"],
   tiling |-> [scheme |-> "wmts", yAxis |-> "north-down", tileSize |-> 256, minZoom |-> 1, maxZoom |-> 7]]
>>

\* SOLAR_SYSTEM_DATASETS.find((dataset) => dataset.id === id)
getDatasetById(id) ==
  IF \E i \in 1 .. Len(SOLAR_SYSTEM_DATASETS) : SOLAR_SYSTEM_DATASETS[i].id = id
    THEN SOLAR_SYSTEM_DATASETS[CHOOSE i \in 1 .. Len(SOLAR_SYSTEM_DATASETS) :
                                 /\ SOLAR_SYSTEM_DATASETS[i].id = id
                                 /\ \A j \in 1 .. i - 1 : SOLAR_SYSTEM_DATASETS[j].id # id]
    ELSE Undefined

\* a faulty variant of areDatasetsCompatible: registered is enough
bothRegistered(primaryId, secondaryId) ==
  getDatasetById(primaryId) # Undefined /\ getDatasetById(secondaryId) # Undefined

areDatasetsCompatible(primaryId, secondaryId) ==
  LET primary == getDatasetById(primaryId)
      secondary == getDatasetById(secondaryId)
  IN  IF primary = Undefined \/ secondary = Undefined THEN FALSE
      ELSE primary.compatibilityKey = secondary.compatibilityKey

\* an absent dataset id, and the dataset of a ref that holds no viewer
NoId == ""

\* PlanetaryMap.tsx, useMemo splitCompatible
splitCompatible(enabled, baseId, splitId) ==
  IF ~enabled \/ baseId = NoId \/ getDatasetById(baseId) = Undefined
       \/ splitId = NoId \/ getDatasetById(splitId) = Undefined
    THEN FALSE
    ELSE areDatasetsCompatible(getDatasetById(baseId).id, getDatasetById(splitId).id)

createDefaultProjection(body) ==
  LET def == PLANETARY_BODIES[body]
  IN  [type |-> "simple-cylindrical",
       body |-> body,
       centralMeridianDeg |-> Deg(0),
       primeMeridianOffsetDeg |-> def.primeMeridianOffsetDeg,
       lonDirection |-> def.defaultLongitudeDirection,
       lonDomain |-> def.defaultLongitudeDomain,
       radiusMeters |-> def.meanRadiusMeters,
       nativeConvention |-> IF def.defaultLongitudeDomain = 360 THEN "east-360" ELSE "east-180"]

buildProjectionContext(dataset) ==
  LET defaultProjection == createDefaultProjection(dataset.body)
      lonConvention == dataset.projection.lonConvention
  IN  [datasetId |-> dataset.id,
       projection |->
         [type |-> "simple-cylindrical",
          body |-> dataset.body,
          centralMeridianDeg |-> dataset.projection.centralMeridianDeg,
          primeMeridianOffsetDeg |-> dataset.projection.primeMeridianOffsetDeg,
          lonDirection |-> IF lonConvention = "west-360" THEN "west" ELSE "east",
          lonDomain |-> IF lonConvention = "east-180" THEN 180 ELSE 360,
          radiusMeters |-> Opt(dataset.projection, "radiusMeters", defaultProjection.radiusMeters),
          nativeConvention |-> lonConvention]]

imageDimensions(dataset) ==
  LET span == dataset.tiling.maxZoom - dataset.tiling.minZoom
      dimension == dataset.tiling.tileSize * Pow2(span)
  IN  [width |-> dimension, height |-> dimension]

(***************************************************************************)
(* alignments.ts: alignment corrections.  ALIGNMENT_DATA, the table read   *)
(* from alignment_corrections.json, is a parameter of the operators.       *)
(***************************************************************************)
\* a faulty variant of getAlignmentCorrection: a dataset without a record
\* borrows one from the table
borrowedCorrection(ALIGNMENT_DATA, datasetId) ==
  IF datasetId \in DOMAIN ALIGNMENT_DATA THEN ALIGNMENT_DATA[datasetId]
  ELSE IF DOMAIN ALIGNMENT_DATA = {} THEN Undefined
  ELSE ALIGNMENT_DATA[CHOOSE id \in DOMAIN ALIGNMENT_DATA : TRUE]

getAlignmentCorrection(ALIGNMENT_DATA, datasetId) ==
  IF datasetId \in DOMAIN ALIGNMENT_DATA THEN ALIGNMENT_DATA[datasetId] ELSE Undefined

\* entries.slice().sort((a, b) => a.zoom - b.zoom): a stable sort
RECURSIVE InsertByZoom(_, _)
InsertByZoom(sorted, entry) ==
  IF sorted = <<>> THEN <<entry>>
  ELSE IF sorted[Len(sorted)].zoom <= entry.zoom THEN Append(sorted, entry)
  ELSE Append(InsertByZoom(SubSeq(sorted, 1, Len(sorted) - 1), entry), sorted[Len(sorted)])

\* a faulty variant of SortByZoom: the entries in their stored order
StoredOrder(entries) == entries

RECURSIVE SortByZoom(_)
SortByZoom(entries) ==
  IF entries = <<>> THEN <<>>
  ELSE InsertByZoom(SortByZoom(SubSeq(entries, 1, Len(entries) - 1)), entries[Len(entries)])

\* the for loop that picks lower and upper, from entry i on
RECURSIVE ScanBracket(_, _, _, _, _)
ScanBracket(entries, zoom, i, lower, upper) ==
  IF i > Len(entries) THEN [lower |-> lower, upper |-> upper]
  ELSE LET entry == entries[i]
           lower2 == IF entry.zoom <= zoom THEN entry ELSE lower
       IN  IF entry.zoom >= zoom
             THEN [lower |-> lower2, upper |-> entry]
             ELSE ScanBracket(entries, zoom, i + 1, lower2, upper)

\* the interpolation parameter t, in quarters
InterpT(lower, upper, zoom) ==
  LET span == IF upper.zoom - lower.zoom = 0 THEN 1 ELSE upper.zoom - lower.zoom
  IN  MathMax(0, MathMin(4, Div(4 * (zoom - lower.zoom), span)))

interp(t, start, end) == start + Div(t * (end - start), 4)

\* a faulty variant of BandSum: the first band that contains lat only
RECURSIVE BandSumFirstMatch(_, _, _)
BandSumFirstMatch(bands, lat, f) ==
  IF bands = <<>> THEN 0
  ELSE LET band == Head(bands)
       IN  IF lat >= band.min_lat /\ lat <= band.max_lat
             THEN Opt(band, f, 0)
             ELSE BandSumFirstMatch(Tail(bands), lat, f)

\* the sum over the latitude bands that contain lat of the field f
RECURSIVE BandSum(_, _, _)
BandSum(bands, lat, f) ==
  IF bands = <<>> THEN 0
  ELSE LET band == Head(bands)
       IN  (IF lat >= band.min_lat /\ lat <= band.max_lat THEN Opt(band, f, 0) ELSE 0)
             + BandSum(Tail(bands), lat, f)

\* the static offsets plus the latitude bands that contain lat
baseOffsets(correction, lat) ==
  LET bands == Opt(Opt(correction, "dynamic", Undefined), "lat_bands", <<>>)
  IN  [latOffset |-> Opt(correction, "lat_offset_deg", 0) + BandSum(bands, lat, "lat_offset_deg"),
       lonOffset |-> Opt(correction, "lon_offset_deg", 0) + BandSum(bands, lat, "lon_offset_deg"),
       pixelOffsetX |-> Opt(Opt(correction, "pixel_offset", Undefined), "x", 0),
       pixelOffsetY |-> Opt(Opt(correction, "pixel_offset", Undefined), "y", 0)]

\* a faulty variant of addInterpolated: a field that the upper breakpoint
\* lacks keeps the value of the lower one
addInterpolatedCarried(base, lower, upper, t) ==
  LET latStart == Opt(lower, "lat_offset_deg", 0)
      lonStart == Opt(lower, "lon_offset_deg", 0)
      xStart == Opt(Opt(lower, "pixel_offset", Undefined), "x", 0)
      yStart == Opt(Opt(lower, "pixel_offset", Undefined), "y", 0)
  IN  [latOffset |-> base.latOffset + interp(t, latStart, Opt(upper, "lat_offset_deg", latStart)),
       lonOffset |-> base.lonOffset + interp(t, lonStart, Opt(upper, "lon_offset_deg", lonStart)),
       pixelOffsetX |-> base.pixelOffsetX
                          + interp(t, xStart, Opt(Opt(upper, "pixel_offset", Undefined), "x", xStart)),
       pixelOffsetY |-> base.pixelOffsetY
                          + interp(t, yStart, Opt(Opt(upper, "pixel_offset", Undefined), "y", yStart))]

\* base plus the offsets interpolated between lower and upper with parameter t
addInterpolated(base, lower, upper, t) ==
  [latOffset |-> base.latOffset
                   + interp(t, Opt(lower, "lat_offset_deg", 0), Opt(upper, "lat_offset_deg", 0)),
   lonOffset |-> base.lonOffset
                   + interp(t, Opt(lower, "lon_offset_deg", 0), Opt(upper, "lon_offset_deg", 0)),
   pixelOffsetX |-> base.pixelOffsetX
                      + interp(t, Opt(Opt(lower, "pixel_offset", Undefined), "x", 0),
                               Opt(Opt(upper, "pixel_offset", Undefined), "x", 0)),
   pixelOffsetY |-> base.pixelOffsetY
                      + interp(t, Opt(Opt(lower, "pixel_offset", Undefined), "y", 0),
                               Opt(Opt(upper, "pixel_offset", Undefined), "y", 0))]

resolveDynamicOffsets(correction, lat, zoom) ==
  Bind(baseOffsets(correction, lat), LAMBDA base :
    Bind(Opt(Opt(correction, "dynamic", Undefined), "zoom_levels", <<>>), LAMBDA levels :
      IF zoom # None /\ Len(levels) > 0
        THEN Bind(SortByZoom(levels), LAMBDA entries :
               Bind(ScanBracket(entries, zoom[1], 1, entries[1], entries[Len(entries)]),
                    LAMBDA pair :
                      Bind(InterpT(pair.lower, pair.upper, zoom[1]), LAMBDA t :
                        addInterpolated(base, pair.lower, pair.upper, t))))
        ELSE base))

applyAlignmentCorrectionForward(ALIGNMENT_DATA, req) ==
  Bind(getAlignmentCorrection(ALIGNMENT_DATA, req.datasetId), LAMBDA correction :
    Bind(resolveDynamicOffsets(correction, req.lat, req.zoom), LAMBDA off :
      [lat |-> req.lat * Opt(correction, "lat_scale", 1) + off.latOffset,
       lon |-> req.lon * Opt(correction, "lon_scale", 1) + off.lonOffset,
       pixelOffsetX |-> off.pixelOffsetX,
       pixelOffsetY |-> off.pixelOffsetY]))

\* latScale || 1 and lonScale || 1
orOne(scale) == IF scale = 0 THEN 1 ELSE scale

applyAlignmentCorrectionInverse(ALIGNMENT_DATA, req) ==
  Bind(getAlignmentCorrection(ALIGNMENT_DATA, req.datasetId), LAMBDA correction :
    Bind(resolveDynamicOffsets(correction, req.lat, req.zoom), LAMBDA off :
      [lat |-> Div(req.lat - off.latOffset, orOne(Opt(correction, "lat_scale", 1))),
       lon |-> Div(req.lon - off.lonOffset, orOne(Opt(correction, "lon_scale", 1))),
       pixelOffsetX |-> -off.pixelOffsetX,
       pixelOffsetY |-> -off.pixelOffsetY]))

(***************************************************************************)
(* geodesy.ts: the simple-cylindrical projection                           *)
(***************************************************************************)
\* options?.zoomLevel
ZoomOf(options) == IF "zoomLevel" \in DOMAIN options THEN Some(options.zoomLevel) ELSE None

\* a faulty variant of latLonToNormalized: the longitude is converted to the
\* texture domain first and the two offsets are subtracted afterwards
latLonToNormalizedConvertedFirst(ALIGNMENT_DATA, latDeg, lonDeg, context, options) ==
  LET projection == context.projection
      applyCorrections == Opt(options, "applyCorrections", TRUE) # FALSE
      lonCanonical == wrapLongitude180(lonDeg)
      latClamped == MathMax(Deg(-90), MathMin(Deg(90), latDeg))
  IN  Bind(IF applyCorrections
             THEN applyAlignmentCorrectionForward(ALIGNMENT_DATA,
                    [datasetId |-> context.datasetId, lat |-> latClamped, lon |-> lonCanonical,
                     zoom |-> ZoomOf(options)])
             ELSE [lat |-> latClamped, lon |-> lonCanonical,
                   pixelOffsetX |-> 0, pixelOffsetY |-> 0],
           LAMBDA corrected :
             [u |-> convertLongitude(corrected.lon, "east-180", "east-360")
                      - projection.primeMeridianOffsetDeg - projection.centralMeridianDeg,
              v |-> Deg(90) - corrected.lat,
              pixelOffsetX |-> corrected.pixelOffsetX,
              pixelOffsetY |-> corrected.pixelOffsetY])

latLonToNormalized(ALIGNMENT_DATA, latDeg, lonDeg, context, options) ==
  LET projection == context.projection
      applyCorrections == Opt(options, "applyCorrections", TRUE) # FALSE
      lonCanonical == wrapLongitude180(lonDeg)
      latClamped == MathMax(Deg(-90), MathMin(Deg(90), latDeg))
  IN  Bind(IF applyCorrections
             THEN applyAlignmentCorrectionForward(ALIGNMENT_DATA,
                    [datasetId |-> context.datasetId, lat |-> latClamped, lon |-> lonCanonical,
                     zoom |-> ZoomOf(options)])
             ELSE [lat |-> latClamped, lon |-> lonCanonical,
                   pixelOffsetX |-> 0, pixelOffsetY |-> 0],
           LAMBDA corrected :
             LET lonPrimeAdjusted ==
                   wrapLongitude180(corrected.lon - projection.primeMeridianOffsetDeg)
                 lonRelative == wrapLongitude180(lonPrimeAdjusted - projection.centralMeridianDeg)
                 lon360 == convertLongitude(lonRelative, "east-180", "east-360")
             IN  \* u = lon360 / 360 and v = (90 - lat) / 180, in the units of u and v
                 [u |-> lon360,
                  v |-> Deg(90) - corrected.lat,
                  pixelOffsetX |-> corrected.pixelOffsetX,
                  pixelOffsetY |-> corrected.pixelOffsetY])

\* u * width and v * height, in pixel units
TimesWidth(u, width) == u * Div(width, 8)

TimesHeight(v, height) == v * Div(height, 4)

\* x / width and y / height, in the units of u and v
OverWidth(x, width) == Div(x, Div(width, 8))

OverHeight(y, height) == Div(y, Div(height, 4))

latLonToPixel(ALIGNMENT_DATA, latDeg, lonDeg, context, dimensions, options) ==
  Bind(latLonToNormalized(ALIGNMENT_DATA, latDeg, lonDeg, context, options), LAMBDA normalized :
    [x |-> TimesWidth(normalized.u, dimensions.width) + normalized.pixelOffsetX,
     y |-> TimesHeight(normalized.v, dimensions.height) + normalized.pixelOffsetY])

\* a faulty variant of pixelToLatLon: the central meridian is subtracted again
pixelToLatLonMeridianSubtracted(ALIGNMENT_DATA, x, y, context, dimensions, options) ==
  LET projection == context.projection
      u == OverWidth(x, dimensions.width)
      v == OverHeight(y, dimensions.height)
      lonRelative == convertLongitude(u, "east-360", "east-180")
      lonPrimeAdjusted == wrapLongitude180(lonRelative - projection.centralMeridianDeg)
  IN  [lat |-> Deg(90) - v,
       lon |-> convertLongitude(
                 wrapLongitude180(lonPrimeAdjusted + projection.primeMeridianOffsetDeg),
                 "east-180", Opt(options, "targetConvention", "east-180"))]

pixelToLatLon(ALIGNMENT_DATA, x, y, context, dimensions, options) ==
  LET projection == context.projection
      applyCorrections == Opt(options, "applyCorrections", TRUE) # FALSE
      targetConvention == Opt(options, "targetConvention", "east-180")
      u == OverWidth(x, dimensions.width)
      v == OverHeight(y, dimensions.height)
      \* u * 360 and v * 180, in angle units
      lonRelative == convertLongitude(u, "east-360", "east-180")
      lonPrimeAdjusted == wrapLongitude180(lonRelative + projection.centralMeridianDeg)
  IN  Bind([lat |-> Deg(90) - v,
            lon |-> wrapLongitude180(lonPrimeAdjusted + projection.primeMeridianOffsetDeg)],
           LAMBDA canonical :
             IF ~applyCorrections
               THEN [lat |-> canonical.lat,
                     lon |-> convertLongitude(canonical.lon, "east-180", targetConvention)]
               ELSE Bind(applyAlignmentCorrectionInverse(ALIGNMENT_DATA,
                           [datasetId |-> context.datasetId, lat |-> canonical.lat,
                            lon |-> canonical.lon, zoom |-> ZoomOf(options)]),
                         LAMBDA inverted :
                           [lat |-> inverted.lat,
                            lon |-> convertLongitude(inverted.lon, "east-180",
                                                     targetConvention)]))

(***************************************************************************)
(* Longitude helpers of the search/projection library (finite inputs).     *)
(***************************************************************************)
LonConvention == {"EAST_180", "EAST_360"}

wrapCanonicalLongitude(lon) ==
  JsRem(JsRem(lon + Deg(180), Deg(360)) + Deg(360), Deg(360)) - Deg(180)

projNormalizeLongitude(lon, convention) ==
  IF convention = "EAST_360"
    THEN JsRem(JsRem(lon, Deg(360)) + Deg(360), Deg(360))
    ELSE wrapCanonicalLongitude(lon)

toCanonicalLongitude(lon, from) ==
  IF from = "EAST_360"
    THEN LET normalized == projNormalizeLongitude(lon, "EAST_360")
         IN  IF normalized > Deg(180) THEN normalized - Deg(360) ELSE normalized
    ELSE wrapCanonicalLongitude(lon)

fromCanonicalLongitude(lon, to) ==
  LET canonical == wrapCanonicalLongitude(lon)
  IN  IF to = "EAST_360"
        THEN JsRem(JsRem(canonical, Deg(360)) + Deg(360), Deg(360))
        ELSE canonical

\* of a finite longitude
inferLongitudeConvention(lon) ==
  IF lon > Deg(180) \/ lon < Deg(-180) THEN "EAST_360" ELSE "EAST_180"

projConvertLongitude(lon, from, to) ==
  fromCanonicalLongitude(toCanonicalLongitude(lon, from), to)

BodyKey == {"earth", "milky_way", "moon", "mars", "mercury", "ceres", "vesta", "unknown"}

BODY_METADATA ==
  [b \in BodyKey |->
     [key |-> b,
      nativeLonConvention |->
        IF b \in {"earth", "milky_way", "unknown"} THEN "EAST_180" ELSE "EAST_360",
      centralMeridian |-> Deg(0)]]

getBodyProjectionMetadata(body) ==
  IF body \in DOMAIN BODY_METADATA THEN BODY_METADATA[body] ELSE BODY_METADATA["unknown"]

\* a faulty variant of normalizeLatitude: no clamp
normalizeLatitudeUnclamped(lat) == lat

normalizeLatitude(lat) == MathMax(Deg(-90), MathMin(Deg(90), lat))

\* xNormalized and yNormalized of lonLatToImagePoint, in the units of u and v
imagePointNormalized(lon, lat, body, options) ==
  LET sourceConvention == Opt(options, "sourceConvention", "EAST_180")
      metadata == getBodyProjectionMetadata(body)
      canonicalLon == toCanonicalLongitude(lon, sourceConvention)
      adjustedLon == wrapCanonicalLongitude(canonicalLon - metadata.centralMeridian)
      lonForImage == fromCanonicalLongitude(adjustedLon, metadata.nativeLonConvention)
      latCanonical == normalizeLatitude(lat)
      xNormalized ==
        IF metadata.nativeLonConvention = "EAST_360"
          THEN projNormalizeLongitude(lonForImage, "EAST_360")
          ELSE projNormalizeLongitude(lonForImage, "EAST_180") + Deg(180)
  IN  [x |-> JsRem(JsRem(xNormalized, Deg(360)) + Deg(360), Deg(360)),
       y |-> Deg(90) - latCanonical]

lonLatToImagePoint(lon, lat, body, dims, options) ==
  LET n == imagePointNormalized(lon, lat, body, options)
      pixelOffset == Opt(Opt(options, "correction", Undefined), "pixelOffset", Undefined)
  IN  [x |-> TimesWidth(n.x, dims.width) + Opt(pixelOffset, "x", 0),
       y |-> TimesHeight(n.y, dims.height) + Opt(pixelOffset, "y", 0)]

(***************************************************************************)
(* The conversions on numbers that may not be finite.  A finite number     *)
(* takes the path above; NaN, Infinity and -Infinity take the branches of  *)
(* Number.isFinite and the IEEE results of %, +, -, * and the comparisons. *)
(***************************************************************************)
\* ((lon + 180) % 360 + 360) % 360 - 180
wrapCanonicalLongitudeOfNumber(lon) ==
  plus(remainder(plus(remainder(plus(lon, Deg(180)), Deg(360)), Deg(360)), Deg(360)), Deg(-180))

normalizeLatitudeOfNumber(lat) ==
  IF ~isFinite(lat) THEN <<0>> ELSE <<normalizeLatitude(lat[1])>>

normalizeLongitudeOfNumber(lon, convention) ==
  IF ~isFinite(lon) THEN <<0>>
  ELSE IF convention = "EAST_360"
    THEN remainder(plus(remainder(lon, Deg(360)), Deg(360)), Deg(360))
    ELSE wrapCanonicalLongitudeOfNumber(lon)

toCanonicalLongitudeOfNumber(lon, from) ==
  IF from = "EAST_360"
    THEN Bind(normalizeLongitudeOfNumber(lon, "EAST_360"), LAMBDA normalized :
           \* normalized is finite
           IF normalized[1] > Deg(180) THEN plus(normalized, Deg(-360)) ELSE normalized)
    ELSE wrapCanonicalLongitudeOfNumber(lon)

fromCanonicalLongitudeOfNumber(lon, to) ==
  Bind(wrapCanonicalLongitudeOfNumber(lon), LAMBDA canonical :
    IF to = "EAST_360"
      THEN remainder(plus(remainder(canonical, Deg(360)), Deg(360)), Deg(360))
      ELSE canonical)

\* x * width and y * height of a positive width and height
timesWidth(u, width) == IF isFinite(u) THEN <<TimesWidth(u[1], width)>> ELSE u

timesHeight(v, height) == IF isFinite(v) THEN <<TimesHeight(v[1], height)>> ELSE v

lonLatToImagePointOfNumber(lon, lat, body, dims, options) ==
  LET sourceConvention == Opt(options, "sourceConvention", "EAST_180")
      metadata == getBodyProjectionMetadata(body)
      canonicalLon == toCanonicalLongitudeOfNumber(lon, sourceConvention)
      adjustedLon == wrapCanonicalLongitudeOfNumber(plus(canonicalLon, -metadata.centralMeridian))
      lonForImage == fromCanonicalLongitudeOfNumber(adjustedLon, metadata.nativeLonConvention)
      latCanonical == normalizeLatitudeOfNumber(lat)
      xNormalized ==
        IF metadata.nativeLonConvention = "EAST_360"
          THEN normalizeLongitudeOfNumber(lonForImage, "EAST_360")
          ELSE plus(normalizeLongitudeOfNumber(lonForImage, "EAST_180"), Deg(180))
      xWrapped == remainder(plus(remainder(xNormalized, Deg(360)), Deg(360)), Deg(360))
      yNormalized == plus(negated(latCanonical), Deg(90))
      pixelOffset == Opt(Opt(options, "correction", Undefined), "pixelOffset", Undefined)
  IN  [x |-> plus(timesWidth(xWrapped, dims.width), Opt(pixelOffset, "x", 0)),
       y |-> plus(timesHeight(yNormalized, dims.height), Opt(pixelOffset, "y", 0))]

\* geodesy.ts: every % of a number that is not finite is NaN, and NaN passes
\* the comparison with -180
wrapLongitude180OfNumber(value) ==
  IF isFinite(value) THEN <<wrapLongitude180(value[1])>> ELSE NaN

\* every branch wraps the value first; NaN fails each comparison that follows
convertLongitudeOfNumber(value, from, to) ==
  IF isFinite(value) THEN <<convertLongitude(value[1], from, to)>> ELSE NaN

\* no band holds a latitude that is not finite: its comparisons with min_lat
\* and max_lat are not both true
resolveDynamicOffsetsOfNumber(correction, lat, zoom) ==
  IF isFinite(lat) THEN resolveDynamicOffsets(correction, lat[1], zoom)
  ELSE IF "dynamic" \in DOMAIN correction
    THEN resolveDynamicOffsets(
           [correction EXCEPT !.dynamic = [f \in DOMAIN @ \ {"lat_bands"} |-> @[f]]], 0, zoom)
    ELSE resolveDynamicOffsets(correction, 0, zoom)

applyAlignmentCorrectionForwardOfNumber(ALIGNMENT_DATA, req) ==
  Bind(getAlignmentCorrection(ALIGNMENT_DATA, req.datasetId), LAMBDA correction :
    Bind(resolveDynamicOffsetsOfNumber(correction, req.lat, req.zoom), LAMBDA off :
      [lat |-> plus(times(req.lat, Opt(correction, "lat_scale", 1)), off.latOffset),
       lon |-> plus(times(req.lon, Opt(correction, "lon_scale", 1)), off.lonOffset),
       pixelOffsetX |-> off.pixelOffsetX,
       pixelOffsetY |-> off.pixelOffsetY]))

latLonToNormalizedOfNumber(ALIGNMENT_DATA, latDeg, lonDeg, context, options) ==
  LET projection == context.projection
      applyCorrections == Opt(options, "applyCorrections", TRUE) # FALSE
      lonCanonical == wrapLongitude180OfNumber(lonDeg)
      latClamped == mathMax(Deg(-90), mathMin(Deg(90), latDeg))
  IN  Bind(IF applyCorrections
             THEN applyAlignmentCorrectionForwardOfNumber(ALIGNMENT_DATA,
                    [datasetId |-> context.datasetId, lat |-> latClamped, lon |-> lonCanonical,
                     zoom |-> ZoomOf(options)])
             ELSE [lat |-> latClamped, lon |-> lonCanonical,
                   pixelOffsetX |-> 0, pixelOffsetY |-> 0],
           LAMBDA corrected :
             LET lonPrimeAdjusted ==
                   wrapLongitude180OfNumber(plus(corrected.lon, -projection.primeMeridianOffsetDeg))
                 lonRelative ==
                   wrapLongitude180OfNumber(plus(lonPrimeAdjusted, -projection.centralMeridianDeg))
                 lon360 == convertLongitudeOfNumber(lonRelative, "east-180", "east-360")
             IN  [u |-> lon360,
                  v |-> plus(negated(corrected.lat), Deg(90)),
                  pixelOffsetX |-> corrected.pixelOffsetX,
                  pixelOffsetY |-> corrected.pixelOffsetY])

latLonToPixelOfNumber(ALIGNMENT_DATA, latDeg, lonDeg, context, dimensions, options) ==
  Bind(latLonToNormalizedOfNumber(ALIGNMENT_DATA, latDeg, lonDeg, context, options),
       LAMBDA normalized :
         [x |-> plus(timesWidth(normalized.u, dimensions.width), normalized.pixelOffsetX),
          y |-> plus(timesHeight(normalized.v, dimensions.height), normalized.pixelOffsetY)])

\* deepseekParser.ts: the corrections of the viewer, keyed by layer id or by
\* body:<name>; pixel offsets in 1/720 px
DEFAULT_ALIGNMENT_CORRECTIONS ==
  [k \in {"body:moon", "body:mars", "body:mercury"} |-> [pixelOffset |-> [x |-> Px(0), y |-> Px(0)]]]

Null == <<>>

\* a faulty variant of getAlignmentCorrectionForLayer: the body's record first
bodyRecordFirst(layerId, body, corrections) ==
  IF ("body:" \o body) \in DOMAIN corrections THEN corrections["body:" \o body]
  ELSE IF layerId # "" /\ layerId \in DOMAIN corrections THEN corrections[layerId]
  ELSE Null

\* a map without keys has neither record, as an absent map has
getAlignmentCorrectionForLayer(layerId, body, corrections) ==
  LET bodyKey == "body:" \o body
  IN  IF layerId # "" /\ layerId \in DOMAIN corrections THEN corrections[layerId]
      ELSE IF bodyKey \in DOMAIN corrections THEN corrections[bodyKey]
      ELSE Null

\* tileViewer3.tsx, useMemo mergedCorrections: the overrides over the defaults
mergedCorrections(overrides) == overrides @@ DEFAULT_ALIGNMENT_CORRECTIONS

(***************************************************************************)
(* Coordinate display utilities (finite inputs).                           *)
(***************************************************************************)
coordWrapLongitude360(value) == JsRem(JsRem(value, Deg(360)) + Deg(360), Deg(360))

coordWrapLongitude180(value) ==
  JsRem(JsRem(value + Deg(180), Deg(360)) + Deg(360), Deg(360)) - Deg(180)

canonicalToDisplay(canonicalValue, mode) ==
  Bind(coordWrapLongitude180(canonicalValue), LAMBDA lon :
    IF mode = "east-360" THEN coordWrapLongitude360(lon + Deg(180)) ELSE lon)

\* value.toFixed(0) of a value that is not negative: the nearest whole number
\* of degrees, the half rounded up
toFixed0(value) == ToString((value + Deg(1) \div 2) \div Deg(1))

\* the label, the number apart from the suffix
formatLongitude(canonicalValue, mode) ==
  Bind(canonicalToDisplay(canonicalValue, mode), LAMBDA lon :
    [number |-> toFixed0(IF mode = "east-360" THEN lon ELSE IF lon < 0 THEN -lon ELSE lon),
     suffix |-> IF mode = "east-360" THEN "E" ELSE IF lon < 0 THEN "W" ELSE "E"])

\* the canonicalizing functions of the three libraries, by name
Canonicalizers ==
  {"geodesy.wrapLongitude180", "geodesy.toEast180:east-180", "geodesy.toEast180:east-360",
   "geodesy.toEast180:west-360", "wrapCanonicalLongitude", "toCanonicalLongitude:EAST_180",
   "toCanonicalLongitude:EAST_360", "coordinates.wrapLongitude180"}

Canonicalized(fn, x) ==
  CASE fn = "geodesy.wrapLongitude180" -> wrapLongitude180(x)
    [] fn = "geodesy.toEast180:east-180" -> toEast180(x, "east-180")
    [] fn = "geodesy.toEast180:east-360" -> toEast180(x, "east-360")
    [] fn = "geodesy.toEast180:west-360" -> toEast180(x, "west-360")
    [] fn = "wrapCanonicalLongitude" -> wrapCanonicalLongitude(x)
    [] fn = "toCanonicalLongitude:EAST_180" -> toCanonicalLongitude(x, "EAST_180")
    [] fn = "toCanonicalLongitude:EAST_360" -> toCanonicalLongitude(x, "EAST_360")
    [] fn = "coordinates.wrapLongitude180" -> coordWrapLongitude180(x)

(***************************************************************************)
(* PlanetaryMap.tsx and TileViewer.tsx: reverse lookup of the nearest       *)
(* feature.  Sines and cosines are read from tables at whole degrees:      *)
(* sin^2(x / 2) in millionths, cos(x) in thousandths; a central angle is   *)
(* in hundredths of a degree, a radius in tenths of a kilometre, and a     *)
(* distance is their product (the factor pi / 180 is part of its unit).    *)
(***************************************************************************)
\* Math.sin(x / 2) * Math.sin(x / 2) for x = 0 .. 180 degrees, in millionths
HaversineTable == <<
   0, 76, 305, 685, 1218, 1903, 2739, 3727, 4866, 6156, 7596, 9186, 10926,
   12815, 14852, 17037, 19369, 21848, 24472, 27241, 30154, 33210, 36408,
   39748, 43227, 46846, 50603, 54497, 58526, 62690, 66987, 71416, 75976,
   80665, 85481, 90424, 95492, 100682, 105995, 111427, 116978, 122645,
   128428, 134323, 140330, 146447, 152671, 159001, 165435, 171970, 178606,
   185340, 192169, 199092, 206107, 213212, 220404, 227680, 235040, 242481,
   250000, 257595, 265264, 273005, 280814, 288691, 296632, 304634, 312697,
   320816, 328990, 337216, 345492, 353814, 362181, 370590, 379039, 387524,
   396044, 404596, 413176, 421783, 430413, 439065, 447736, 456422, 465122,
   473832, 482550, 491274, 500000, 508726, 517450, 526168, 534878, 543578,
   552264, 560935, 569587, 578217, 586824, 595404, 603956, 612476, 620961,
   629410, 637819, 646186, 654508, 662784, 671010, 679184, 687303, 695366,
   703368, 711309, 719186, 726995, 734736, 742405, 750000, 757519, 764960,
   772320, 779596, 786788, 793893, 800908, 807831, 814660, 821394, 828030,
   834565, 840999, 847329, 853553, 859670, 865677, 871572, 877355, 883022,
   888573, 894005, 899318, 904508, 909576, 914519, 919335, 924024, 928584,
   933013, 937310, 941474, 945503, 949397, 953154, 956773, 960252, 963592,
   966790, 969846, 972759, 975528, 978152, 980631, 982963, 985148, 987185,
   989074, 990814, 992404, 993844, 995134, 996273, 997261, 998097, 998782,
   999315, 999695, 999924, 1000000>>

\* Math.cos(x) for x = 0 .. 90 degrees, in thousandths
CosineTable == <<
   1000, 1000, 999, 999, 998, 996, 995, 993, 990, 988, 985, 982, 978, 974,
   970, 966, 961, 956, 951, 946, 940, 934, 927, 921, 914, 906, 899, 891, 883,
   875, 866, 857, 848, 839, 829, 819, 809, 799, 788, 777, 766, 755, 743, 731,
   719, 707, 695, 682, 669, 656, 643, 629, 616, 602, 588, 574, 559, 545, 530,
   515, 500, 485, 469, 454, 438, 423, 407, 391, 375, 358, 342, 326, 309, 292,
   276, 259, 242, 225, 208, 191, 174, 156, 139, 122, 105, 87, 70, 52, 35, 17,
   0>>

Abs(n) == IF n < 0 THEN -n ELSE n

\* Math.sin(d / 2) * Math.sin(d / 2) for a difference d of angles: even, of period 360
sinHalfSquared(d) ==
  Bind(Abs(Div(d, Deg(1))) % 360, LAMBDA k :
    HaversineTable[(IF k > 180 THEN 360 - k ELSE k) + 1])

\* Math.cos of a latitude
cosLat(lat) == CosineTable[Abs(Div(lat, Deg(1))) + 1]

\* a of the haversine formula, in millionths
haversineA(lat1, lat2, dLat, dLon) ==
  sinHalfSquared(dLat) + (((cosLat(lat1) * cosLat(lat2)) \div 1000) * sinHalfSquared(dLon)) \div 1000

\* 2 * Math.atan2(Math.sqrt(a), Math.sqrt(1 - a)): the angle whose
\* sin^2(x / 2) is a, interpolated between the whole degrees of the table
centralAngle(a) ==
  IF a >= HaversineTable[181] THEN 18000
  ELSE Bind(CHOOSE k \in 0 .. 179 : HaversineTable[k + 1] <= a /\ a < HaversineTable[k + 2],
            LAMBDA k : 100 * k + (100 * (a - HaversineTable[k + 1]))
                                   \div (HaversineTable[k + 2] - HaversineTable[k + 1]))

\* PlanetaryMap.tsx: R = 6371 for every body
haversineDistanceKm(lat1, lon1, lat2, lon2) ==
  LET R == 63710
  IN  R * centralAngle(haversineA(lat1, lat2, lat2 - lat1, lon2 - lon1))

\* TileViewer.tsx
BODY_RADII_KM ==
  [b \in BodyKey |->
     CASE b = "moon" -> 17374 [] b = "mars" -> 33895 [] b = "mercury" -> 24397
       [] b = "ceres" -> 4697 [] b = "vesta" -> 2627 [] OTHER -> 63710]

BODY_LONGITUDE_CONVENTIONS == [b \in BodyKey |-> [direction |-> "east", domain |-> "360"]]

\* normalizeLongitude of the coordinate display utilities
coordNormalizeLongitude(value, convention) ==
  LET direction == Opt(convention, "direction", "east")
      domain == Opt(convention, "domain", "360")
  IN  Bind(IF domain = "360" THEN coordWrapLongitude360(value) ELSE coordWrapLongitude180(value),
           LAMBDA lon :
             coordWrapLongitude180(
               IF direction = "west"
                 THEN IF domain = "360" THEN coordWrapLongitude360(Deg(360) - lon) ELSE -lon
                 ELSE lon))

\* handleReverseSearch.calculateDistance
calculateDistance(body, lat1, lon1, lat2, lon2) ==
  LET bodyKey == body
      R == IF bodyKey \in DOMAIN BODY_RADII_KM THEN BODY_RADII_KM[bodyKey]
           ELSE BODY_RADII_KM["unknown"]
      convention == IF bodyKey \in DOMAIN BODY_LONGITUDE_CONVENTIONS
                      THEN BODY_LONGITUDE_CONVENTIONS[bodyKey] ELSE Undefined
      lon1Canonical == coordNormalizeLongitude(lon1, convention)
      lon2Canonical == coordNormalizeLongitude(lon2, convention)
  IN  R * centralAngle(haversineA(lat1, lat2, lat2 - lat1, lon2Canonical - lon1Canonical))

\* the loop of the canvas-double-click handler, from feature i on; best is
\* <<>> for null and bestDistance is -1 for Infinity
RECURSIVE doubleClickNearest(_, _, _, _, _)
doubleClickNearest(geo, features, i, best, bestDistance) ==
  IF i > Len(features) THEN [best |-> best, bestDistance |-> bestDistance]
  ELSE Bind(haversineDistanceKm(geo.lat, geo.lon, features[i].lat, features[i].lon),
            LAMBDA distance :
              IF bestDistance = -1 \/ distance < bestDistance
                THEN doubleClickNearest(geo, features, i + 1, features[i], distance)
                ELSE doubleClickNearest(geo, features, i + 1, best, bestDistance))

\* the loop of handleReverseSearch, from feature i on
RECURSIVE reverseSearchNearest(_, _, _, _, _, _)
reverseSearchNearest(lat, lon, body, features, i, nearest) ==
  IF i > Len(features) THEN nearest
  ELSE Bind(calculateDistance(body, lat, lon, features[i].lat, features[i].lon),
            LAMBDA distance :
              IF distance < nearest.minDistance
                THEN reverseSearchNearest(lat, lon, body, features, i + 1,
                       [nearestFeature |-> features[i], minDistance |-> distance])
                ELSE reverseSearchNearest(lat, lon, body, features, i + 1, nearest))

\* a faulty variant of handleReverseSearch: the first feature, whatever its distance
firstFeatureOnly(lat, lon, body, features) ==
  IF Len(features) = 0 THEN Undefined
  ELSE [nearestFeature |-> features[1],
        minDistance |-> calculateDistance(body, lat, lon, features[1].lat, features[1].lon)]

\* handleReverseSearch: no result for an empty feature list
handleReverseSearch(lat, lon, body, features) ==
  IF Len(features) = 0 THEN Undefined
  ELSE reverseSearchNearest(lat, lon, body, features, 1,
         [nearestFeature |-> features[1],
          minDistance |-> calculateDistance(body, lat, lon, features[1].lat, features[1].lon)])

(***************************************************************************)
(* PlanetaryMap.tsx and tileViewer3.tsx: tile addresses.  A URL is the     *)
(* sequence of its pieces: the host and each placeholder are pieces of     *)
(* their own; the empty URL "" is the empty sequence.                      *)
(***************************************************************************)
\* template.includes(piece)
includes(template, piece) == \E i \in 1 .. Len(template) : template[i] = piece

\* url.replace(/{name}/g, String(value)): every occurrence
replaceAll(url, placeholder, value) ==
  [i \in 1 .. Len(url) |-> IF url[i] = placeholder THEN ToString(value) ELSE url[i]]

\* url.replace("{name}", String(value)): the first occurrence only
replaceFirst(url, placeholder, value) ==
  [i \in 1 .. Len(url) |->
     IF url[i] = placeholder /\ \A j \in 1 .. i - 1 : url[j] # placeholder
       THEN ToString(value) ELSE url[i]]

GIBS_HOST == "gibs.earthdata.nasa.gov"

\* a faulty variant of createTileSource_getTileUrl: x % tilesPerAxis alone
getTileUrlRemainderOnly(dataset, level, x, y) ==
  LET z == level + dataset.tiling.minZoom
      tilesPerAxis == Pow2(level)
      wrappedX == JsRem(x, tilesPerAxis)
      row == IF includes(dataset.template, GIBS_HOST) THEN Pow2(z) - 1 - y ELSE y
  IN  IF y < 0 \/ y >= tilesPerAxis THEN <<>>
      ELSE replaceAll(replaceAll(replaceAll(replaceAll(replaceAll(dataset.template,
             "{z}", z), "{row}", row), "{col}", wrappedX), "{x}", wrappedX), "{y}", row)

\* PlanetaryMap.tsx, createTileSource(dataset).getTileUrl
createTileSource_getTileUrl(dataset, level, x, y) ==
  LET z == level + dataset.tiling.minZoom
      tilesPerAxis == Pow2(level)
      wrappedX == JsRem(JsRem(x, tilesPerAxis) + tilesPerAxis, tilesPerAxis)
      row == IF includes(dataset.template, GIBS_HOST) THEN Pow2(z) - 1 - y ELSE y
      col == wrappedX
  IN  IF y < 0 \/ y >= tilesPerAxis THEN <<>>
      ELSE replaceAll(replaceAll(replaceAll(replaceAll(replaceAll(dataset.template,
             "{z}", z), "{row}", row), "{col}", col), "{x}", col), "{y}", row)

\* tileViewer3.tsx, the template viewer's tileSource.getTileUrl
tileSource_getTileUrl(layerConfig, level, x, y) ==
  LET minZoom == Opt(layerConfig, "min_zoom", 0)
      template == layerConfig.tile_url_template
      z == level + minZoom
      maxTiles == Pow2(level)
      wrappedX == JsRem(JsRem(x, maxTiles) + maxTiles, maxTiles)
      finalY == IF includes(template, GIBS_HOST) THEN Pow2(z) - 1 - y ELSE y
      finalX == wrappedX
  IN  IF y < 0 \/ y >= maxTiles THEN <<>>
      ELSE replaceAll(replaceAll(replaceAll(replaceAll(replaceAll(template,
             "{z}", z), "{row}", finalY), "{col}", finalX), "{x}", finalX), "{y}", finalY)

\* tileViewer3.tsx, the backend-config viewer's getTileUrl
backend_getTileUrl(layerConfig, level, x, y) ==
  LET minZoom == Opt(layerConfig, "min_zoom", 0)
      maxTiles == Pow2(level)
      x2 == JsRem(JsRem(x, maxTiles) + maxTiles, maxTiles)
      z == level + minZoom
  IN  IF y < 0 \/ y >= maxTiles THEN <<>>
      ELSE replaceFirst(replaceFirst(replaceFirst(replaceFirst(replaceFirst(
             layerConfig.tile_url_template,
             "{z}", z), "{x}", x2), "{y}", y), "{col}", x2), "{row}", y)

(***************************************************************************)
(* Inputs                                                                  *)
(***************************************************************************)
\* every 15 degrees, and the sixteenths of a degree next to 0, 180 and 360
LonGrid == {Deg(15 * k) : k \in -GridN .. GridN}

LonFractions == {s * (Deg(b) + e) : s \in {-1, 1}, b \in {0, 180, 360}, e \in {-1, 1, 2}}

LonSamples == LonGrid \cup LonFractions

\* every 15 degrees; beyond the poles when LatN > 6
LatSamples == {Deg(15 * k) : k \in -LatN .. LatN}

ZoomSamples == {None} \cup {Some(z) : z \in 0 .. MaxZoom}

\* sequences without repetition of at most n elements of S
RECURSIVE SeqsUpTo(_, _)
SeqsUpTo(S, n) ==
  IF n = 0 THEN {<<>>}
  ELSE LET shorter == SeqsUpTo(S, n - 1)
       IN  shorter \cup {Append(q, e) : q \in shorter, e \in S}

InjectiveSeqs(S, n) ==
  {q \in SeqsUpTo(S, n) : \A i \in 1 .. Len(q), j \in 1 .. Len(q) : i # j => q[i] # q[j]}

\* two overlapping latitude bands; each lacks one of the optional offsets
BandSamples ==
  {[min_lat |-> Deg(0), max_lat |-> Deg(30), lat_offset_deg |-> Deg(2)],
   [min_lat |-> Deg(20), max_lat |-> Deg(60), lat_offset_deg |-> Deg(4), lon_offset_deg |-> Deg(-6)]}

\* zoom breakpoints at zoom 2, 4 and 6, each lacking some optional field
BreakpointSamples ==
  {[zoom |-> 2, lat_offset_deg |-> Deg(10), pixel_offset |-> [x |-> Px(2048), y |-> Px(4096)]],
   [zoom |-> 6, lat_offset_deg |-> Deg(20), lon_offset_deg |-> Deg(-8)],
   [zoom |-> 4, lon_offset_deg |-> Deg(4), pixel_offset |-> [x |-> Px(-2048), y |-> Px(0)]]}

\* the record r with field f set to v
With(r, f, v) == [g \in DOMAIN r \cup {f} |-> IF g = f THEN v ELSE r[g]]

StaticSamples ==
  {Undefined,
   [pixel_offset |-> [x |-> Px(1024), y |-> Px(-2048)]],
   [lat_offset_deg |-> Deg(5), lon_offset_deg |-> Deg(-10),
    pixel_offset |-> [x |-> Px(1024), y |-> Px(-2048)]]}

ScaleSamples == {Undefined, [lat_scale |-> 1, lon_scale |-> 1], [lat_scale |-> 2, lon_scale |-> 2]}

DynamicSamples ==
  {Undefined}
    \cup {[lat_bands |-> b] : b \in InjectiveSeqs(BandSamples, MaxBands)}
    \cup {[zoom_levels |-> z] : z \in InjectiveSeqs(BreakpointSamples, MaxBreakpoints)}
    \cup {[lat_bands |-> b, zoom_levels |-> z] :
            b \in {q \in InjectiveSeqs(BandSamples, MaxBands) : Len(q) = 2},
            z \in {q \in InjectiveSeqs(BreakpointSamples, MaxBreakpoints) : Len(q) = 2}}

\* r1 and r2 joined: the fields of both
Join(r1, r2) == [g \in DOMAIN r1 \cup DOMAIN r2 |-> IF g \in DOMAIN r1 THEN r1[g] ELSE r2[g]]

CorrectionSamples ==
  {IF DOMAIN d = {} THEN Join(st, sc) ELSE With(Join(st, sc), "dynamic", d) :
     st \in StaticSamples, sc \in ScaleSamples, d \in DynamicSamples}

\* the dataset that the sampled correction tables correct
CorrectedDataset == SOLAR_SYSTEM_DATASETS[1]

TableSamples == {(CorrectedDataset.id :> c) : c \in CorrectionSamples}

\* a record with every optional numeric field, and the records that lack some
\* of them: of the static offsets, of the band, of either breakpoint
OffsetVariants(r) ==
  {[f \in (DOMAIN r \ {"lat_offset_deg", "lon_offset_deg", "pixel_offset"}) \cup kept \cup pixel |->
      IF f = "pixel_offset" THEN [g \in axes |-> r.pixel_offset[g]] ELSE r[f]] :
     kept \in SUBSET {"lat_offset_deg", "lon_offset_deg"},
     pixel \in SUBSET ({"pixel_offset"} \cap DOMAIN r),
     axes \in SUBSET DOMAIN Opt(r, "pixel_offset", <<>>)}

PartialSamples ==
  LET static == [lat_offset_deg |-> Deg(5), lon_offset_deg |-> Deg(-10),
                 pixel_offset |-> [x |-> Px(1024), y |-> Px(-2048)]]
      band == [min_lat |-> Deg(0), max_lat |-> Deg(30), lat_offset_deg |-> Deg(2),
               lon_offset_deg |-> Deg(-6)]
      lower == [zoom |-> 2, lat_offset_deg |-> Deg(10), lon_offset_deg |-> Deg(4),
                pixel_offset |-> [x |-> Px(2048), y |-> Px(4096)]]
      upper == [zoom |-> 6, lat_offset_deg |-> Deg(20), lon_offset_deg |-> Deg(-8),
                pixel_offset |-> [x |-> Px(-2048), y |-> Px(512)]]
      record(st, b, lo, up) ==
        With(st, "dynamic", [lat_bands |-> <<b>>, zoom_levels |-> <<lo, up>>])
  IN  {record(st, band, lower, upper) : st \in OffsetVariants(static)}
        \cup {record(static, b, lower, upper) : b \in OffsetVariants(band)}
        \cup {record(static, band, lo, upper) : lo \in OffsetVariants(lower)}
        \cup {record(static, band, lower, up) : up \in OffsetVariants(upper)}
        \cup {record(<<>>, [min_lat |-> Deg(0), max_lat |-> Deg(30)], [zoom |-> 2], [zoom |-> 6])}

\* numbers given as a latitude and as a longitude: not finite, out of range,
\* on the bounds and inside
NotFinite == {NaN, Infinity, NegInfinity}

LatNumbers == NotFinite \cup {<<Deg(d)>> : d \in {-120, -90, -30, 0, 45, 90, 135}}

LonNumbers == NotFinite \cup {<<Deg(d)>> : d \in {-540, -180, -90, 0, 135, 180, 270, 360}}

\* dataset ids without a record in the sampled correction tables
UncorrectedIds == {"mars:mars_mgs_mola", "custom:unregistered"}

OffsetSamples == {Deg(0), Deg(90), Deg(-135)}

\* central meridian, prime-meridian offset and longitude convention
ProjectionSamples ==
  {[centralMeridianDeg |-> cm, primeMeridianOffsetDeg |-> pm, lonConvention |-> "east-360"] :
     cm \in OffsetSamples, pm \in OffsetSamples}
    \cup {[centralMeridianDeg |-> Deg(0), primeMeridianOffsetDeg |-> Deg(0), lonConvention |-> c] :
            c \in LongitudeConvention}

\* a projection context with its image dimensions: the registered datasets,
\* the default projection of every body, and the first dataset declared with
\* other offsets or another longitude convention
ContextSamples ==
  {<<buildProjectionContext(SOLAR_SYSTEM_DATASETS[i]), imageDimensions(SOLAR_SYSTEM_DATASETS[i])>> :
     i \in 1 .. Len(SOLAR_SYSTEM_DATASETS)}
    \cup {<<[datasetId |-> b, projection |-> createDefaultProjection(b)],
            imageDimensions(CorrectedDataset)>> : b \in PlanetaryBodyKey}
    \cup {<<buildProjectionContext([CorrectedDataset EXCEPT !.projection = pr]),
            imageDimensions(CorrectedDataset)>> : pr \in ProjectionSamples}

\* the MODIS Terra template of TREK_TEMPLATES, and the OpenStreetMap one
GibsTemplate ==
  <<"https://", GIBS_HOST,
    "/wmts/epsg3857/best/MODIS_Terra_CorrectedReflectance_TrueColor/default/", "{date}",
    "/GoogleMapsCompatible_Level9/", "{z}", "/", "{y}", "/", "{x}", ".jpg">>

OsmTemplate == <<"https://", "tile.openstreetmap.org", "/", "{z}", "/", "{x}", "/", "{y}", ".png">>

\* the registered datasets, and the first one declared south-up, served from
\* GIBS, or both with a first zoom level of 1
DatasetSamples ==
  {SOLAR_SYSTEM_DATASETS[i] : i \in 1 .. Len(SOLAR_SYSTEM_DATASETS)}
    \cup {[CorrectedDataset EXCEPT !.tiling.yAxis = "south-up"],
          [CorrectedDataset EXCEPT !.template = GibsTemplate],
          [CorrectedDataset EXCEPT !.template = GibsTemplate, !.tiling.yAxis = "south-up",
                                   !.tiling.minZoom = 1]}

LayerConfigSamples ==
  {[tile_url_template |-> CorrectedDataset.template],
   [tile_url_template |-> OsmTemplate, min_zoom |-> 0],
   [tile_url_template |-> GibsTemplate, min_zoom |-> 1],
   [tile_url_template |-> SOLAR_SYSTEM_DATASETS[11].template, min_zoom |-> 1, max_zoom |-> 7]}

\* level, x and y of a tile request: y from one row above the grid to one below
TileSamples ==
  {<<level, x, y>> : level \in 0 .. MaxLevel, x \in -MaxCol .. MaxCol, y \in -1 .. Pow2(MaxLevel)}

\* layer ids of the viewer: none selected, a Moon layer and a Mars layer
LayerSamples == {"", "lro_wac_global", "mars_mgs_mola"}

OverrideSamples ==
  {[pixelOffset |-> [x |-> Px(3), y |-> Px(-4)]], [pixelOffset |-> [x |-> Px(7), y |-> Px(0)]]}

\* every map from some of the keys to the sampled records
MapsOver(keys) == UNION {[k -> OverrideSamples] : k \in SUBSET keys}

\* corrections maps: overrides of layers and of the Moon as a body, alone and
\* merged over the defaults
CorrectionMapSamples ==
  LET overrides == MapsOver({"lro_wac_global", "mars_mgs_mola", "body:moon"})
  IN  overrides \cup {mergedCorrections(o) : o \in overrides}

\* gazetteer features: A, B and C of the Mars example, and D just west of the
\* prime meridian, its longitude given in the 360 domain
FeatureSamples ==
  {[name |-> "A", lat |-> Deg(0), lon |-> Deg(0)],
   [name |-> "B", lat |-> Deg(10), lon |-> Deg(10)],
   [name |-> "C", lat |-> Deg(-5), lon |-> Deg(-5)],
   [name |-> "D", lat |-> Deg(0), lon |-> Deg(350)]}

FeatureListSamples == InjectiveSeqs(FeatureSamples, MaxFeatures)

\* query points of a reverse lookup
QuerySamples ==
  {[lat |-> Deg(1), lon |-> Deg(1)], [lat |-> Deg(-4), lon |-> Deg(-4)],
   [lat |-> Deg(0), lon |-> Deg(-6)], [lat |-> Deg(5), lon |-> Deg(5)],
   [lat |-> Deg(0), lon |-> Deg(180)], [lat |-> Deg(90), lon |-> Deg(0)]}

(***************************************************************************)
(* The operations, each applied once to inputs drawn from the sample sets. *)
(***************************************************************************)
\* PlanetaryMap mounted without datasets: no viewer, nothing pending
MapInit ==
  /\ baseDatasetId = NoId
  /\ splitLayerId = NoId
  /\ splitViewEnabled = FALSE
  /\ viewerRef = NoId
  /\ splitViewerRef = NoId
  /\ viewerSetups = {}
  /\ splitSetups = {}

\* the bodies that the gazetteer is loaded for
LoadBodies == {"earth", "moon", "mars"}

\* bodies that loadFeaturesForBody is called for: two with a features module
\* of their own, one filtered out of all_features.json
CachedBodies == {"moon", "mars", "ceres"}

\* TileViewer mounted on its default body, the Moon, whose features the
\* feature loading effect has requested; PlanetaryMap with an empty cache
LoadsInit ==
  /\ selectedBody = "moon"
  /\ searchText = ""
  /\ debounceTimer = None
  /\ pendingLoads = [b \in LoadBodies |-> IF b = "moon" THEN 1 ELSE 0]
  /\ viewerFeatures = None
  /\ featuresCache = [b \in CachedBodies |-> None]
  /\ pendingImports = [b \in CachedBodies |-> 0]

\* the layers whose offsets are edited
EditedLayers == {"lro_wac_global", "lro_nac_apollo"}

\* Number(text) of the draft texts: <<n>> for a number, NaN otherwise
Number(text) ==
  CASE text = "0" -> <<Px(0)>> [] text = "5" -> <<Px(5)>> [] text = "8" -> <<Px(8)>>
    [] text = "-3" -> <<Px(-3)>> [] OTHER -> NaN

\* text.trim() of the draft texts
trim(text) == IF text = " " THEN "" ELSE text

\* pixelOffset.x.toString() of a whole number of pixels
toString(value) == ToString(Div(value, Px(1)))

\* JSON.stringify and JSON.parse of a corrections map: numbers as decimal text
stringify(map) ==
  [k \in DOMAIN map |->
     [pixelOffset |-> [x |-> toString(map[k].pixelOffset.x), y |-> toString(map[k].pixelOffset.y)]]]

parse(json) ==
  [k \in DOMAIN json |->
     [pixelOffset |-> [x |-> Number(json[k].pixelOffset.x)[1], y |-> Number(json[k].pixelOffset.y)[1]]]]

\* loadStoredCorrections: {} when nothing is stored
loadStoredCorrections(storage) == IF storage = None THEN <<>> ELSE parse(storage[1])

\* saveStoredCorrections: setItem replaces the stored text
saveStoredCorrections(map) == Some(stringify(map))

\* What window and its localStorage answer to the calls of the two functions:
\* no window (server render), getItem throws, no item, an item that is the
\* JSON text of a map, or another text; setItem stores or throws.
\* A call returns [threw |-> FALSE, value |-> v] or throws, [threw |-> TRUE].
Returned(v) == [threw |-> FALSE, value |-> v]

Thrown == [threw |-> TRUE]

\* JSON.parse of a text that is not the text of a map: null for "null", a
\* SyntaxError otherwise
parseText(text) == IF text = "null" THEN Returned("null") ELSE Thrown

\* a faulty variant of loadStoredCorrectionsOf: no try and catch
loadStoredCorrectionsUncaught(window) ==
  IF ~window.defined THEN Returned(<<>>)
  ELSE IF "throws" \in DOMAIN window.getItem THEN Thrown
  ELSE IF "text" \in DOMAIN window.getItem
    THEN IF window.getItem.text = "" THEN Returned(<<>>)
         ELSE IF parseText(window.getItem.text).threw THEN Thrown ELSE Returned(<<>>)
  ELSE Returned(loadStoredCorrections(window.getItem.raw))

loadStoredCorrectionsOf(window) ==
  IF ~window.defined THEN Returned(<<>>)
  ELSE IF "throws" \in DOMAIN window.getItem
    THEN \* catch (err)
         Returned(<<>>)
  ELSE IF "text" \in DOMAIN window.getItem
    THEN IF window.getItem.text = "" THEN \* !raw
              Returned(<<>>)
         ELSE IF parseText(window.getItem.text).threw
           THEN \* catch (err)
                Returned(<<>>)
           ELSE \* parsed ?? {}
                Returned(<<>>)
  ELSE Returned(loadStoredCorrections(window.getItem.raw))

\* the item after the call, and how the call ended
saveStoredCorrectionsOf(window, map) ==
  IF ~window.defined THEN [threw |-> FALSE, item |-> window.getItem]
  ELSE IF window.setItem = "throws"
    THEN \* catch (err)
         [threw |-> FALSE, item |-> window.getItem]
    ELSE [threw |-> FALSE, item |-> [raw |-> saveStoredCorrections(map)]]

\* stored corrections maps, and the answers of window.localStorage
StoredSamples ==
  {("body:moon" :> [pixelOffset |-> [x |-> Px(5), y |-> Px(-3)]]),
   ("lro_wac_global" :> [pixelOffset |-> [x |-> Px(8), y |-> Px(0)]]
      @@ "body:moon" :> [pixelOffset |-> [x |-> Px(5), y |-> Px(-3)]])}

GetItemSamples ==
  {[throws |-> "SecurityError"], [raw |-> None]}
    \cup {[text |-> t] : t \in {"", "null", "{\"body:moon\":", "undefined"}}
    \cup {[raw |-> Some(stringify(m))] : m \in StoredSamples}

WindowSamples ==
  {[defined |-> TRUE, getItem |-> g, setItem |-> s] :
     g \in GetItemSamples, s \in {"stores", "throws"}}
    \cup {[defined |-> FALSE, getItem |-> [raw |-> None], setItem |-> "stores"]}

\* the alignment draft effect: the texts of the offset of the selected layer
draftOf(layerId, body, merged) ==
  LET correction == getAlignmentCorrectionForLayer(layerId, body, merged)
  IN  IF "pixelOffset" \in DOMAIN correction
        THEN [x |-> toString(correction.pixelOffset.x), y |-> toString(correction.pixelOffset.y)]
        ELSE [x |-> "", y |-> ""]

\* TileViewer mounted on the Moon with nothing stored and no layer selected
OverridesInit ==
  /\ selectedLayerId = ""
  /\ localStorage = None
  /\ objects = <<loadStoredCorrections(None)>>
  /\ alignmentOverrides = 1
  /\ correctionsRef = mergedCorrections(loadStoredCorrections(None))
  /\ alignmentDraft = draftOf("", "moon", mergedCorrections(loadStoredCorrections(None)))
  /\ committed = [layer \in EditedLayers |-> [op |-> "none"]]

\* TileViewer mounted with no layer selected: no layer config and no viewer
ViewersInit ==
  /\ tileLayerId = <<>>
  /\ tileLayerConfig = None
  /\ configFetches = {}
  /\ osdSetups = {}
  /\ osdViewer = None
  /\ templateSetups = {}
  /\ mainViewer = None

\* useAiDescription mounted for a feature without metadata: the effect of the
\* mount was skipped, isLoading is false and descriptionCache is empty
AiInit ==
  /\ featureKey = "moon:tycho"
  /\ meta = None
  /\ aiEnabled = TRUE
  /\ aiState = [description |-> None, isLoading |-> FALSE, error |-> FALSE]
  /\ timeoutId = None
  /\ requests = {}
  /\ descriptionCache = {}

Init ==
  /\ call = "init"
  /\ args = Undefined
  /\ ret = Undefined
  /\ MapInit
  /\ LoadsInit
  /\ OverridesInit
  /\ ViewersInit
  /\ AiInit

ConvertLongitude ==
  /\ call = "init"
  /\ \E x \in LonSamples, c1 \in LongitudeConvention, c2 \in LongitudeConvention :
       /\ call' = "convertLongitude"
       /\ args' = [value |-> x, from |-> c1, to |-> c2]
       /\ ret' = [there |-> convertLongitude(x, c1, c2),
                  back |-> convertLongitude(convertLongitude(x, c1, c2), c2, c1)]
  /\ UNCHANGED componentVars

ProjConvertLongitude ==
  /\ call = "init"
  /\ \E x \in LonSamples, c1 \in LonConvention, c2 \in LonConvention :
       /\ call' = "projConvertLongitude"
       /\ args' = [value |-> x, from |-> c1, to |-> c2]
       /\ ret' = [there |-> projConvertLongitude(x, c1, c2),
                  back |-> projConvertLongitude(projConvertLongitude(x, c1, c2), c2, c1)]
  /\ UNCHANGED componentVars

Canonicalize ==
  /\ call = "init"
  /\ \E fn \in Canonicalizers, x \in LonSamples :
       /\ call' = "canonicalize"
       /\ args' = [fn |-> fn, value |-> x]
       /\ ret' = [lon |-> Canonicalized(fn, x)]
  /\ UNCHANGED componentVars

\* canonicalToDisplay and formatLongitude of a canonical longitude, in both
\* display modes
CanonicalToDisplay ==
  /\ call = "init"
  /\ \E canonicalValue \in LonSamples :
       /\ call' = "canonicalToDisplay"
       /\ args' = [canonicalValue |-> canonicalValue]
       /\ ret' = [display |-> [mode \in {"east-360", "east-180"} |->
                                canonicalToDisplay(canonicalValue, mode)],
                  label |-> [mode \in {"east-360", "east-180"} |->
                              formatLongitude(canonicalValue, mode)]]
  /\ UNCHANGED componentVars

\* fetchGazetteerKMZ: the longitude of a point of the gazetteer, canonicalized
\* under the inferred convention, and under EAST_360
CanonicalizeGazetteer ==
  /\ call = "init"
  /\ \E lonRaw \in LonSamples :
       /\ call' = "fetchGazetteerKMZ"
       /\ args' = [lonRaw |-> lonRaw]
       /\ ret' = [inferred |-> inferLongitudeConvention(lonRaw),
                  canonicalLon |-> toCanonicalLongitude(lonRaw, inferLongitudeConvention(lonRaw)),
                  declared |-> toCanonicalLongitude(lonRaw, "EAST_360")]
  /\ UNCHANGED componentVars

\* latLonToPixel and then pixelToLatLon, with corrections disabled
ProjectionRoundTrip ==
  /\ call = "init"
  /\ \E cd \in ContextSamples, lat \in LatSamples, lon \in LonSamples :
       LET data == (CorrectedDataset.id :> [lat_offset_deg |-> Deg(5), pixel_offset |-> [x |-> Px(1024), y |-> Px(-2048)]])
           options == [applyCorrections |-> FALSE]
       IN  \E pixel \in {latLonToPixel(data, lat, lon, cd[1], cd[2], options)} :
           /\ call' = "projectionRoundTrip"
           /\ args' = [lat |-> lat, lon |-> lon, context |-> cd[1], dimensions |-> cd[2],
                       options |-> options]
           /\ ret' = [normalized |-> latLonToNormalized(data, lat, lon, cd[1], options),
                      pixel |-> pixel,
                      geo |-> pixelToLatLon(data, pixel.x, pixel.y, cd[1], cd[2], options)]
  /\ UNCHANGED componentVars

LonLatToImagePoint ==
  /\ call = "init"
  /\ \E body \in BodyKey, lat \in LatSamples, lon \in LonSamples, conv \in LonConvention :
       LET options == [sourceConvention |-> conv]
           dims == imageDimensions(CorrectedDataset)
       IN  /\ call' = "lonLatToImagePoint"
           /\ args' = [lon |-> lon, lat |-> lat, body |-> body, dims |-> dims, options |-> options]
           /\ ret' = [normalized |-> imagePointNormalized(lon, lat, body, options),
                      pixel |-> lonLatToImagePoint(lon, lat, body, dims, options)]
  /\ UNCHANGED componentVars

\* lonLatToImagePoint of numbers that may not be finite
LonLatToImagePointOfNumber ==
  /\ call = "init"
  /\ \E body \in BodyKey, lat \in LatNumbers, lon \in LonNumbers, conv \in LonConvention :
       LET options == [sourceConvention |-> conv]
           dims == imageDimensions(CorrectedDataset)
       IN  /\ call' = "lonLatToImagePointOfNumber"
           /\ args' = [lon |-> lon, lat |-> lat, body |-> body, dims |-> dims, options |-> options]
           /\ ret' = lonLatToImagePointOfNumber(lon, lat, body, dims, options)
  /\ UNCHANGED componentVars

\* latLonToPixel of numbers that may not be finite
LatLonToPixelOfNumber ==
  /\ call = "init"
  /\ \E data \in {<<>>, (CorrectedDataset.id :> [lat_offset_deg |-> Deg(5), lon_scale |-> 2,
                                                 pixel_offset |-> [x |-> Px(1024), y |-> Px(-2048)]])},
        cd \in ContextSamples, lat \in LatNumbers, lon \in LonNumbers :
       /\ call' = "latLonToPixelOfNumber"
       /\ args' = [data |-> data, lat |-> lat, lon |-> lon, context |-> cd[1], dimensions |-> cd[2]]
       /\ ret' = latLonToPixelOfNumber(data, lat, lon, cd[1], cd[2], <<>>)
  /\ UNCHANGED componentVars

\* TileViewer with a store that may fail: the initial alignmentOverrides, a
\* point projected with the correction of the selected layer, and one save
ProjectWithStore ==
  /\ call = "init"
  /\ \E window \in WindowSamples, layerId \in {"", "lro_wac_global"}, body \in {"moon", "mars"},
        lat \in {Deg(-45), Deg(30)}, lon \in {Deg(0), Deg(135)}, map \in StoredSamples :
       LET dims == imageDimensions(CorrectedDataset)
           loaded == loadStoredCorrectionsOf(window)
       IN  /\ call' = "projectWithStore"
           /\ args' = [window |-> window, layerId |-> layerId, body |-> body, lat |-> lat,
                       lon |-> lon, dims |-> dims, map |-> map]
           /\ ret' = [loaded |-> loaded,
                      point |-> IF loaded.threw THEN Undefined
                                ELSE lonLatToImagePoint(lon, lat, body, dims,
                                       [sourceConvention |-> "EAST_180",
                                        correction |-> getAlignmentCorrectionForLayer(
                                                         layerId, body, mergedCorrections(loaded.value))]),
                      saved |-> saveStoredCorrectionsOf(window, map)]
  /\ UNCHANGED componentVars

ResolveOffsets ==
  /\ call = "init"
  /\ \E c \in CorrectionSamples \cup PartialSamples, lat \in LatSamples, zoom \in ZoomSamples :
       /\ call' = "resolveDynamicOffsets"
       /\ args' = [correction |-> c, lat |-> lat, zoom |-> zoom]
       /\ ret' = resolveDynamicOffsets(c, lat, zoom)
  /\ UNCHANGED componentVars

\* applyAlignmentCorrectionForward and then applyAlignmentCorrectionInverse
AlignmentRoundTrip ==
  /\ call = "init"
  /\ \E data \in TableSamples, lat \in LatSamples, lon \in {Deg(0), Deg(170)},
        zoom \in {None, Some(1), Some(4)} :
       LET id == CorrectedDataset.id
       IN  \E forward \in {applyAlignmentCorrectionForward(data,
                               [datasetId |-> id, lat |-> lat, lon |-> lon, zoom |-> zoom])} :
           /\ call' = "alignmentRoundTrip"
           /\ args' = [data |-> data, datasetId |-> id, lat |-> lat, lon |-> lon, zoom |-> zoom]
           /\ ret' = [forward |-> forward,
                      inverse |-> applyAlignmentCorrectionInverse(data,
                                    [datasetId |-> id, lat |-> forward.lat, lon |-> forward.lon,
                                     zoom |-> zoom])]
  /\ UNCHANGED componentVars

\* latLonToPixel and then pixelToLatLon at the same zoom, with corrections
CorrectedRoundTrip ==
  /\ call = "init"
  /\ \E data \in TableSamples, lat \in {Deg(-45), Deg(0), Deg(30)},
        lon \in {Deg(0), Deg(90), Deg(180)}, options \in {Undefined, [zoomLevel |-> 4]} :
       LET context == buildProjectionContext(CorrectedDataset)
           dims == imageDimensions(CorrectedDataset)
       IN  \E pixel \in {latLonToPixel(data, lat, lon, context, dims, options)} :
           /\ call' = "correctedRoundTrip"
           /\ args' = [data |-> data, lat |-> lat, lon |-> lon, context |-> context,
                       dimensions |-> dims, options |-> options]
           /\ ret' = [offsets |-> resolveDynamicOffsets(data[context.datasetId], lat, ZoomOf(options)),
                      pixel |-> pixel,
                      geo |-> pixelToLatLon(data, pixel.x, pixel.y, context, dims, options)]
  /\ UNCHANGED componentVars

\* getTileUrl for a tile and for the tile one world width to its east
PlanetaryMapTile ==
  /\ call = "init"
  /\ \E dataset \in DatasetSamples, t \in TileSamples :
       /\ t[3] <= Pow2(t[1])
       /\ call' = "createTileSource.getTileUrl"
       /\ args' = [dataset |-> dataset, template |-> dataset.template,
                   level |-> t[1], x |-> t[2], y |-> t[3]]
       /\ ret' = [url |-> createTileSource_getTileUrl(dataset, t[1], t[2], t[3]),
                  east |-> createTileSource_getTileUrl(dataset, t[1], t[2] + Pow2(t[1]), t[3])]
  /\ UNCHANGED componentVars

ViewerTile ==
  /\ call = "init"
  /\ \E layerConfig \in LayerConfigSamples, t \in TileSamples :
       /\ t[3] <= Pow2(t[1])
       /\ call' = "tileSource.getTileUrl"
       /\ args' = [layerConfig |-> layerConfig, template |-> layerConfig.tile_url_template,
                   level |-> t[1], x |-> t[2], y |-> t[3]]
       /\ ret' = [url |-> tileSource_getTileUrl(layerConfig, t[1], t[2], t[3]),
                  east |-> tileSource_getTileUrl(layerConfig, t[1], t[2] + Pow2(t[1]), t[3])]
  /\ UNCHANGED componentVars

BackendViewerTile ==
  /\ call = "init"
  /\ \E layerConfig \in LayerConfigSamples, t \in TileSamples :
       /\ t[3] <= Pow2(t[1])
       /\ call' = "backend.getTileUrl"
       /\ args' = [layerConfig |-> layerConfig, template |-> layerConfig.tile_url_template,
                   level |-> t[1], x |-> t[2], y |-> t[3]]
       /\ ret' = [url |-> backend_getTileUrl(layerConfig, t[1], t[2], t[3]),
                  east |-> backend_getTileUrl(layerConfig, t[1], t[2] + Pow2(t[1]), t[3])]
  /\ UNCHANGED componentVars

\* PlanetaryMap.tsx: a point placed on the image of a base dataset and on
\* the image of a second one, each with its own projection context and
\* image dimensions
PlaceOnBoth ==
  /\ call = "init"
  /\ \E i \in 1 .. Len(SOLAR_SYSTEM_DATASETS), j \in 1 .. Len(SOLAR_SYSTEM_DATASETS),
        lat \in {Deg(0), Deg(45), Deg(-90)}, lon \in {Deg(-180), Deg(0), Deg(90)},
        data \in {<<>>, (CorrectedDataset.id :> [pixel_offset |-> [x |-> Px(1024), y |-> Px(-2048)]])} :
       LET primary == SOLAR_SYSTEM_DATASETS[i]
           secondary == SOLAR_SYSTEM_DATASETS[j]
       IN  /\ call' = "placeOnBoth"
           /\ args' = [primaryId |-> primary.id, secondaryId |-> secondary.id,
                       lat |-> lat, lon |-> lon, data |-> data]
           /\ ret' = [compatible |-> areDatasetsCompatible(primary.id, secondary.id),
                      primary |-> latLonToPixel(data, lat, lon, buildProjectionContext(primary),
                                                imageDimensions(primary), Undefined),
                      secondary |-> latLonToPixel(data, lat, lon, buildProjectionContext(secondary),
                                                  imageDimensions(secondary), Undefined)]
  /\ UNCHANGED componentVars

\* applyAlignmentCorrectionForward and applyAlignmentCorrectionInverse of one
\* request for a dataset that the table has no record of
UncorrectedDataset ==
  /\ call = "init"
  /\ \E data \in {<<>>,
                   (CorrectedDataset.id :> [lat_offset_deg |-> Deg(5), lon_scale |-> 2,
                                            pixel_offset |-> [x |-> Px(1024), y |-> Px(-2048)],
                                            dynamic |-> [zoom_levels |-> <<[zoom |-> 2, lon_offset_deg |-> Deg(4)]>>]])},
        datasetId \in UncorrectedIds, lat \in LatSamples, lon \in {Deg(-180), Deg(0), Deg(170)},
        zoom \in ZoomSamples :
       LET req == [datasetId |-> datasetId, lat |-> lat, lon |-> lon, zoom |-> zoom]
       IN  /\ call' = "uncorrectedDataset"
           /\ args' = [data |-> data, datasetId |-> datasetId, lat |-> lat, lon |-> lon, zoom |-> zoom]
           /\ ret' = [forward |-> applyAlignmentCorrectionForward(data, req),
                      inverse |-> applyAlignmentCorrectionInverse(data, req)]
  /\ UNCHANGED componentVars

GetAlignmentCorrectionForLayer ==
  /\ call = "init"
  /\ \E layerId \in LayerSamples, body \in BodyKey, corrections \in CorrectionMapSamples :
       /\ call' = "getAlignmentCorrectionForLayer"
       /\ args' = [layerId |-> layerId, body |-> body, corrections |-> corrections]
       /\ ret' = [correction |-> getAlignmentCorrectionForLayer(layerId, body, corrections)]
  /\ UNCHANGED componentVars

\* PlanetaryMap.tsx, canvas-double-click: the nearest of the loaded features
DoubleClickNearest ==
  /\ call = "init"
  /\ \E body \in PlanetaryBodyKey, geo \in QuerySamples, features \in FeatureListSamples :
       /\ call' = "canvas-double-click"
       /\ args' = [body |-> body, lat |-> geo.lat, lon |-> geo.lon, features |-> features]
       /\ ret' = doubleClickNearest(geo, features, 1, Undefined, -1)
  /\ UNCHANGED componentVars

\* TileViewer.tsx, handleReverseSearch
ReverseSearch ==
  /\ call = "init"
  /\ \E body \in BodyKey, geo \in QuerySamples, features \in FeatureListSamples :
       /\ call' = "handleReverseSearch"
       /\ args' = [body |-> body, lat |-> geo.lat, lon |-> geo.lon, features |-> features]
       /\ ret' = handleReverseSearch(geo.lat, geo.lon, body, features)
  /\ UNCHANGED componentVars

Next ==
  \/ ConvertLongitude
  \/ ProjConvertLongitude
  \/ Canonicalize
  \/ CanonicalToDisplay
  \/ CanonicalizeGazetteer
  \/ ProjectionRoundTrip
  \/ LonLatToImagePoint
  \/ LonLatToImagePointOfNumber
  \/ LatLonToPixelOfNumber
  \/ ProjectWithStore
  \/ ResolveOffsets
  \/ AlignmentRoundTrip
  \/ CorrectedRoundTrip
  \/ PlanetaryMapTile
  \/ ViewerTile
  \/ BackendViewerTile
  \/ DoubleClickNearest
  \/ PlaceOnBoth
  \/ GetAlignmentCorrectionForLayer
  \/ UncorrectedDataset
  \/ ReverseSearch

Spec == Init /\ [][Next]_vars

(***************************************************************************)
(* PlanetaryMap.tsx: the component across renders.  A render with new      *)
(* props commits as one step: the memos are recomputed, the clean-ups of   *)
(* the effects whose dependencies changed run, then the effects.  The      *)
(* import that a set-up awaits resolves in a step of its own.              *)
(***************************************************************************)
\* dataset ids passed as props: absent, registered, and not registered
IdSamples ==
  {NoId, "moon:lro_wac_global", "moon:lro_nac_apollo", "mars:mars_mgs_mola", "custom:unregistered"}

\* the clean-up of an effect: cancelled = true in the closure of its set-up
Cancelled(setups) == {[s EXCEPT !.cancelled = TRUE] : s \in setups}

\* the parent renders the map with new props; otherDeps tells whether another
\* dependency of the viewer effect (body, toolbar, callbacks) changed
Render ==
  \E base \in IdSamples, split \in IdSamples, enabled \in BOOLEAN, otherDeps \in BOOLEAN :
    LET baseDataset == getDatasetById(base)
        splitDataset == getDatasetById(split)
        compatible == splitCompatible(enabled, base, split)
        viewerEffect == otherDeps \/ baseDataset # getDatasetById(baseDatasetId)
        splitEffect == \/ enabled # splitViewEnabled
                       \/ splitDataset # getDatasetById(splitLayerId)
                       \/ compatible # splitCompatible(splitViewEnabled, baseDatasetId, splitLayerId)
        \* viewerRef.current once the clean-ups have run
        viewer == IF viewerEffect THEN NoId ELSE viewerRef
    IN  /\ baseDatasetId' = base
        /\ splitLayerId' = split
        /\ splitViewEnabled' = enabled
        /\ viewerRef' = viewer
        /\ viewerSetups' =
             IF ~viewerEffect THEN viewerSetups
             ELSE IF baseDataset = Undefined THEN Cancelled(viewerSetups)
             ELSE Cancelled(viewerSetups) \cup {[dataset |-> baseDataset.id, cancelled |-> FALSE]}
        /\ splitViewerRef' = IF splitEffect THEN NoId ELSE splitViewerRef
        /\ splitSetups' =
             IF ~splitEffect THEN splitSetups
             ELSE IF viewer = NoId \/ ~enabled \/ splitDataset = Undefined \/ ~compatible
               THEN Cancelled(splitSetups)
             ELSE Cancelled(splitSetups) \cup {[dataset |-> splitDataset.id, cancelled |-> FALSE]}
        /\ Cardinality(viewerSetups') <= MaxPending
        /\ Cardinality(splitSetups') <= MaxPending
        /\ UNCHANGED exceptMap

\* setupViewer after its await import("openseadragon")
SetupViewer ==
  \E s \in viewerSetups :
    /\ viewerSetups' = viewerSetups \ {s}
    /\ IF s.cancelled
         THEN UNCHANGED <<viewerRef, splitViewerRef>>
         ELSE /\ viewerRef' = s.dataset
              /\ splitViewerRef' = NoId
    /\ UNCHANGED <<baseDatasetId, splitLayerId, splitViewEnabled, splitSetups, exceptMap>>

\* setupSplitViewer after its await import("openseadragon")
SetupSplitViewer ==
  \E s \in splitSetups :
    /\ splitSetups' = splitSetups \ {s}
    /\ IF s.cancelled
         THEN UNCHANGED splitViewerRef
         ELSE splitViewerRef' = s.dataset
    /\ UNCHANGED <<baseDatasetId, splitLayerId, splitViewEnabled, viewerRef, viewerSetups, exceptMap>>

NextMap ==
  \/ Render
  \/ SetupViewer
  \/ SetupSplitViewer

SpecMap == Init /\ [][NextMap]_vars

(***************************************************************************)
(* Gazetteer loading.  tileViewer3.tsx: the feature loading effect, the    *)
(* auto-search effect with its debounce timer, the load buttons and the    *)
(* loaders.  PlanetaryMap.tsx: loadFeaturesForBody and featuresCache.      *)
(* A load is in flight from its fetch or import to the resolution of it.   *)
(***************************************************************************)
SearchSamples == {"", "ty", "tycho"}

\* the number of loads in flight that a function of bodies counts
RECURSIVE Total(_, _)
Total(loads, bodies) ==
  IF bodies = {} THEN 0
  ELSE LET b == CHOOSE x \in bodies : TRUE
       IN  loads[b] + Total(loads, bodies \ {b})

\* loadMoonGazetteer, queryMarsCraterDB, searchEarthLocations: the fetch starts
Started(loads, body) == [loads EXCEPT ![body] = @ + 1]

\* searchText.trim() && searchText.length > 2
Searchable(text) == text = "tycho"

\* the auto-search effect: its clean-up clears the timer, then a new one is set
AutoSearch(body, text) ==
  IF Searchable(text) THEN Some([body |-> body, text |-> text]) ELSE None

\* setSelectedBody, then the feature loading effect and the auto-search effect
SelectBody ==
  \E body \in LoadBodies \ {selectedBody} :
    /\ selectedBody' = body
    /\ viewerFeatures' = None
    /\ pendingLoads' = IF body \in {"moon", "mars"} THEN Started(pendingLoads, body) ELSE pendingLoads
    /\ Total(pendingLoads', LoadBodies) <= MaxLoads
    /\ debounceTimer' = AutoSearch(body, searchText)
    /\ UNCHANGED <<searchText, featuresCache, pendingImports, exceptLoads>>

\* setSearchText, then the auto-search effect
TypeSearch ==
  \E text \in SearchSamples \ {searchText} :
    /\ searchText' = text
    /\ debounceTimer' = AutoSearch(selectedBody, text)
    /\ UNCHANGED <<selectedBody, pendingLoads, viewerFeatures, featuresCache, pendingImports, exceptLoads>>

\* the debounce timer fires after 500 ms: the loader of the selected body
DebounceFires ==
  /\ debounceTimer # None
  /\ pendingLoads' = Started(pendingLoads, debounceTimer[1].body)
  /\ Total(pendingLoads', LoadBodies) <= MaxLoads
  /\ debounceTimer' = None
  /\ UNCHANGED <<selectedBody, searchText, viewerFeatures, featuresCache, pendingImports, exceptLoads>>

\* the Load Features button of the selected body
LoadButton ==
  /\ selectedBody \in {"moon", "mars"}
  /\ pendingLoads' = Started(pendingLoads, selectedBody)
  /\ Total(pendingLoads', LoadBodies) <= MaxLoads
  /\ UNCHANGED <<selectedBody, searchText, debounceTimer, viewerFeatures, featuresCache, pendingImports, exceptLoads>>

\* a loader resumes after its fetch: setFeatures
LoadResolves ==
  \E body \in LoadBodies :
    /\ pendingLoads[body] > 0
    /\ pendingLoads' = [pendingLoads EXCEPT ![body] = @ - 1]
    /\ viewerFeatures' = Some(body)
    /\ UNCHANGED <<selectedBody, searchText, debounceTimer, featuresCache, pendingImports, exceptLoads>>

\* PlanetaryMap, canvas-double-click: loadFeaturesForBody returns the list
\* that featuresCache holds, or runs up to its await
LoadFeaturesForBody ==
  \E body \in DOMAIN pendingImports :
    /\ IF featuresCache[body] # None
         THEN UNCHANGED pendingImports
         ELSE /\ pendingImports' = Started(pendingImports, body)
              /\ Total(pendingImports', DOMAIN pendingImports) <= MaxLoads
    /\ UNCHANGED <<selectedBody, searchText, debounceTimer, pendingLoads, viewerFeatures, featuresCache, exceptLoads>>

\* the array that the awaited import gives: the default export of the module
\* of the body, one object however often it is imported, or a new array that
\* filter returns, told from the others by the loads then in flight
imported(body, inFlight) ==
  IF body \in {"moon", "mars", "mercury"}
    THEN [body |-> body, array |-> 0]
    ELSE [body |-> body, array |-> inFlight]

\* loadFeaturesForBody after its await import: featuresCache[body] is assigned
ImportResolves ==
  \E body \in DOMAIN pendingImports :
    /\ pendingImports[body] > 0
    /\ pendingImports' = [pendingImports EXCEPT ![body] = @ - 1]
    /\ featuresCache' = [featuresCache EXCEPT ![body] = Some(imported(body, pendingImports[body]))]
    /\ UNCHANGED <<selectedBody, searchText, debounceTimer, pendingLoads, viewerFeatures, exceptLoads>>

NextLoads ==
  \/ SelectBody
  \/ TypeSearch
  \/ DebounceFires
  \/ LoadButton
  \/ LoadResolves
  \/ LoadFeaturesForBody
  \/ ImportResolves

SpecLoads == Init /\ [][NextLoads]_vars

(***************************************************************************)
(* tileViewer3.tsx: the alignment overrides.  A corrections map is an      *)
(* object: objects holds the content of every map created, and the state   *)
(* alignmentOverrides refers to one of them.  A handler, the render that   *)
(* its setState causes and the effects of that render are one step; a      *)
(* setState with the reference that the state already holds causes none.   *)
(***************************************************************************)
\* texts typed into the fields of the offset form
DraftSamples == [x |-> {"5", "8", "abc"}, y |-> {" ", "-3"}]

\* the map without the key: delete next[key]
Without(map, key) == [k \in DOMAIN map \ {key} |-> map[k]]

\* a faulty variant of spread: the same object under another name
alias(objs, ref) == [objects |-> objs, ref |-> ref]

\* { ...alignmentOverrides }: a new object with the entries of the old one
spread(objs, ref) == [objects |-> Append(objs, objs[ref]), ref |-> Len(objs) + 1]

\* a faulty variant of correctionsRefSync: the ref keeps what it holds
keepCurrent(current, merged) == current

\* the effect correctionsRef.current = mergedCorrections
correctionsRefSync(current, merged) == merged

\* the render after setAlignmentOverrides(next) or a change of the selected
\* layer, with its effects; none when neither changes
Rerender(next, layerId) ==
  IF next.ref = alignmentOverrides /\ layerId = selectedLayerId
    THEN UNCHANGED <<correctionsRef, alignmentDraft>>
    ELSE \E merged \in {mergedCorrections(next.objects[next.ref])} :
           /\ correctionsRef' = IF next.ref = alignmentOverrides THEN correctionsRef
                                 ELSE correctionsRefSync(correctionsRef, merged)
           /\ alignmentDraft' = draftOf(layerId, selectedBody, merged)

\* the layer select: setSelectedLayerId
SelectLayer ==
  \E layerId \in (EditedLayers \cup {""}) \ {selectedLayerId} :
    /\ selectedLayerId' = layerId
    /\ Rerender([objects |-> objects, ref |-> alignmentOverrides], layerId)
    /\ UNCHANGED <<objects, alignmentOverrides, localStorage, committed, exceptOverrides>>

handleAlignmentDraftChange ==
  \E axis \in {"x", "y"} : \E value \in DraftSamples[axis] :
    /\ alignmentDraft' = [alignmentDraft EXCEPT ![axis] = value]
    /\ UNCHANGED <<selectedLayerId, objects, alignmentOverrides, correctionsRef, localStorage,
                   committed, exceptOverrides>>

\* setAlignmentOverrides(next); saveStoredCorrections(next)
Commit(next, operation) ==
  /\ objects' = next.objects
  /\ alignmentOverrides' = next.ref
  /\ localStorage' = saveStoredCorrections(next.objects[next.ref])
  /\ committed' = [committed EXCEPT ![selectedLayerId] = operation]
  /\ Rerender(next, selectedLayerId)
  /\ UNCHANGED <<selectedLayerId, exceptOverrides>>

handlePersistAlignmentOffset ==
  /\ selectedLayerId # ""
  /\ Len(objects) < MaxObjects
  /\ \E xValue \in {IF trim(alignmentDraft.x) = "" THEN <<Px(0)>> ELSE Number(alignmentDraft.x)},
        yValue \in {IF trim(alignmentDraft.y) = "" THEN <<Px(0)>> ELSE Number(alignmentDraft.y)} :
       /\ xValue # NaN /\ yValue # NaN
       /\ \E next \in {spread(objects, alignmentOverrides)} :
            LET entries == next.objects[next.ref]
                record == [pixelOffset |-> [x |-> xValue[1], y |-> yValue[1]]]
                           @@ Opt(entries, selectedLayerId, <<>>)
                updated == IF xValue[1] = 0 /\ yValue[1] = 0
                             THEN Without(entries, selectedLayerId)
                             ELSE With(entries, selectedLayerId, record)
            IN  Commit([next EXCEPT !.objects[next.ref] = updated],
                       [op |-> "persist", x |-> xValue[1], y |-> yValue[1]])

handleResetAlignmentOffset ==
  /\ selectedLayerId # ""
  /\ Len(objects) < MaxObjects
  /\ \E next \in {spread(objects, alignmentOverrides)} :
       Commit([next EXCEPT !.objects[next.ref] = Without(@, selectedLayerId)], [op |-> "reset"])

\* the page is loaded again: the component mounts with the stored overrides
Reload ==
  /\ Len(objects) < MaxObjects
  /\ \E loaded \in {loadStoredCorrections(localStorage)} :
       /\ objects' = Append(objects, loaded)
       /\ alignmentOverrides' = Len(objects) + 1
       /\ correctionsRef' = mergedCorrections(loaded)
       /\ selectedLayerId' = ""
       /\ alignmentDraft' = draftOf("", selectedBody, mergedCorrections(loaded))
  /\ UNCHANGED <<localStorage, committed, exceptOverrides>>

NextOverrides ==
  \/ SelectLayer
  \/ handleAlignmentDraftChange
  \/ handlePersistAlignmentOffset
  \/ handleResetAlignmentOffset
  \/ Reload

SpecOverrides == Init /\ [][NextOverrides]_vars

(***************************************************************************)
(* TileViewer's viewers.  tileViewer3.tsx: the layer configuration effect   *)
(* (deps selectedLayerId), the OpenSeadragon viewer effect (deps            *)
(* layerConfig) and the split/overlay viewer effect (deps selectedLayerId,  *)
(* layerConfig, ...).  A layer id is the sequence of its pieces between     *)
(* colons, so "earth:openstreetmap" is <<"earth", "openstreetmap">> and the *)
(* empty id is <<>>.  A backend is configured (backendBase is not empty).   *)
(* A set-up is in flight from its import of openseadragon to the resolution *)
(* of it, and a configuration fetch from its fetch to its response; set-ups *)
(* that no observation tells apart are one element of the set.             *)
(***************************************************************************)
\* selectedLayerId.includes(":")
includesColon(id) == Len(id) >= 2

\* TREK_TEMPLATES[body].find((t) => t.id === id) finds a template
foundTemplate(body, id) == body = "earth" /\ id = "openstreetmap"

LayerIds ==
  {<<>>, <<"layer1">>, <<"openstreetmap">>,
   <<"earth", "openstreetmap">>, <<"earth", "unknown">>}

\* the clean-up of an effect run: mounted = false in every pending run
Unmounted(setups) == {[s EXCEPT !.mounted = FALSE] : s \in setups}

\* the fallback of the layer configuration effect, without a fetch: the
\* config to set, or None when no template is found
templateConfig(id) ==
  IF Len(id) >= 2
    THEN IF foundTemplate(id[1], id[2]) THEN Some(id) ELSE None
    ELSE IF foundTemplate("earth", id[1]) THEN Some(id) ELSE None

\* The render and the effects that follow a step on layer id `id`:
\* `idChanged` when selectedLayerId changed in the step, `isSet` when the step
\* called setLayerConfig(cfg).  The viewer effect runs again when the state
\* layerConfig changed: its clean-up destroys the viewer of the last run, and
\* the new run imports openseadragon for any config that is not null.  The
\* split/overlay effect runs again when either dependency changed: its
\* clean-up destroys its own mainViewer, and the new run imports
\* openseadragon when the id has a colon and the config is not null.
RerenderViewers(id, idChanged, isSet, cfg) ==
  LET cfgChanged == isSet /\ ~(cfg = None /\ tileLayerConfig = None)
      next == IF isSet THEN cfg ELSE tileLayerConfig
      \* the run of the split/overlay effect between the change of the id
      \* and the change of the config, cleaned up by the second render
      between ==
        IF idChanged /\ cfgChanged /\ includesColon(id) /\ tileLayerConfig # None
          THEN {[layer |-> id, config |-> tileLayerConfig[1], mounted |-> FALSE]}
          ELSE {}
  IN  /\ tileLayerConfig' = next
      /\ IF cfgChanged
           THEN /\ osdViewer' = None
                /\ osdSetups' = Unmounted(osdSetups) \cup
                     (IF next # None
                        THEN {[config |-> next[1], mounted |-> TRUE]}
                        ELSE {})
           ELSE UNCHANGED <<osdViewer, osdSetups>>
      /\ IF idChanged \/ cfgChanged
           THEN /\ mainViewer' = None
                /\ templateSetups' = Unmounted(templateSetups) \cup between \cup
                     (IF includesColon(id) /\ next # None
                        THEN {[layer |-> id, config |-> next[1], mounted |-> TRUE]}
                        ELSE {})
           ELSE UNCHANGED <<mainViewer, templateSetups>>

\* selectedLayerId changes: the layer configuration effect is cleaned up and
\* runs for the new id.  The empty id clears the config, an id without a
\* colon is fetched from the backend, and an id with a colon sets the config
\* of its template at once, or nothing when no template is found.
SelectTileLayer ==
  \E id \in LayerIds \ {tileLayerId} :
    /\ tileLayerId' = id
    /\ configFetches' = Unmounted(configFetches) \cup
         (IF id # <<>> /\ ~includesColon(id)
            THEN {[id |-> id, mounted |-> TRUE]}
            ELSE {})
    /\ IF id = <<>>
         THEN RerenderViewers(id, TRUE, TRUE, None)
         ELSE IF includesColon(id) /\ templateConfig(id) # None
           THEN RerenderViewers(id, TRUE, TRUE, templateConfig(id))
           ELSE RerenderViewers(id, TRUE, FALSE, None)
    /\ UNCHANGED exceptViewers

\* the fetch of a layer config settles: a run that was cleaned up returns,
\* a response that is not ok clears the config, a good one sets it, and a
\* failed fetch falls back to the templates; when no template is found the
\* config is cleared if the run was cleaned up (`if (!mounted)`)
ConfigFetchSettles ==
  \E f \in configFetches, outcome \in {"ok", "notOk", "throw"} :
    /\ configFetches' = configFetches \ {f}
    /\ CASE outcome = "ok" ->
              IF f.mounted THEN RerenderViewers(tileLayerId, FALSE, TRUE, Some(f.id))
              ELSE RerenderViewers(tileLayerId, FALSE, FALSE, None)
         [] outcome = "notOk" ->
              IF f.mounted THEN RerenderViewers(tileLayerId, FALSE, TRUE, None)
              ELSE RerenderViewers(tileLayerId, FALSE, FALSE, None)
         [] OTHER ->
              IF templateConfig(f.id) # None
                THEN IF f.mounted
                       THEN RerenderViewers(tileLayerId, FALSE, TRUE, templateConfig(f.id))
                       ELSE RerenderViewers(tileLayerId, FALSE, FALSE, None)
                ELSE IF f.mounted
                       THEN RerenderViewers(tileLayerId, FALSE, FALSE, None)
                       ELSE RerenderViewers(tileLayerId, FALSE, TRUE, None)
    /\ UNCHANGED <<tileLayerId, exceptViewers>>

\* the import of the viewer effect resolves: a run that was cleaned up
\* returns, any other creates its viewer on viewerRef.current
OsdImportResolves ==
  \E s \in osdSetups :
    /\ osdSetups' = osdSetups \ {s}
    /\ osdViewer' = IF s.mounted THEN Some(s.config) ELSE osdViewer
    /\ UNCHANGED <<tileLayerId, tileLayerConfig, configFetches, templateSetups,
                   mainViewer, exceptViewers>>

\* the import and the tick of the split/overlay effect resolve: a run that
\* was cleaned up returns, any other destroys its own viewers (it has none
\* yet) and creates mainViewer on viewerRef.current
TemplateImportResolves ==
  \E s \in templateSetups :
    /\ templateSetups' = templateSetups \ {s}
    /\ mainViewer' = IF s.mounted THEN Some(s.config) ELSE mainViewer
    /\ UNCHANGED <<tileLayerId, tileLayerConfig, configFetches, osdSetups,
                   osdViewer, exceptViewers>>

NextViewers ==
  \/ SelectTileLayer
  \/ ConfigFetchSettles
  \/ OsdImportResolves
  \/ TemplateImportResolves

SpecViewers == Init /\ [][NextViewers]_vars

(***************************************************************************)
(* useAiDescription.  The effect (deps featureKey, meta, enabled) with its  *)
(* clean-up, the debounce timer of 300 ms and the request to the API.  The  *)
(* description of a feature is named by its key; meta is undefined (None)   *)
(* or a metadata object, named by a number.  A request is in flight from    *)
(* its fetch to the end of fetchDescription, with the state of the signal   *)
(* of its controller.                                                       *)
(***************************************************************************)
FeatureKeys == {"moon:tycho", "mars:gale"}

MetaSamples == {None, Some(1), Some(2)}

\* the clean-up of the last run that scheduled a fetch: clearTimeout(timeoutId)
\* and abortControllerRef.current.abort().  After a run that returned no
\* clean-up the timer is cleared and the last controller aborted already.
Aborted(reqs) == {[r EXCEPT !.aborted = TRUE] : r \in reqs}

\* a render with new props: the clean-up of the last run, then the effect.
\* It returns at once when disabled or without meta, takes the description
\* from descriptionCache when it is there, and otherwise sets isLoading and
\* schedules fetchDescription.
ChangeProps ==
  \E key \in FeatureKeys, m \in MetaSamples, e \in BOOLEAN :
    /\ <<key, m, e>> # <<featureKey, meta, aiEnabled>>
    /\ featureKey' = key
    /\ meta' = m
    /\ aiEnabled' = e
    /\ requests' = Aborted(requests)
    /\ IF ~e \/ m = None
         THEN /\ timeoutId' = None
              /\ UNCHANGED aiState
         ELSE IF key \in descriptionCache
           THEN /\ timeoutId' = None
                /\ aiState' = [description |-> Some(key), isLoading |-> FALSE,
                               error |-> FALSE]
           ELSE /\ timeoutId' = Some(key)
                /\ aiState' = [aiState EXCEPT !.isLoading = TRUE, !.error = FALSE]
    /\ UNCHANGED <<descriptionCache, exceptAi>>

\* the timer fires and fetchDescription starts: without an API key it sets
\* the state and returns, with one it sends the request
TimerFires ==
  /\ timeoutId # None
  /\ timeoutId' = None
  /\ \E apiKey \in BOOLEAN :
       IF ~apiKey
         THEN /\ aiState' = [description |-> None, isLoading |-> FALSE,
                             error |-> FALSE]
              /\ UNCHANGED requests
         ELSE /\ requests' = requests \cup {[key |-> timeoutId[1], aborted |-> FALSE]}
              /\ UNCHANGED aiState
  /\ UNCHANGED <<featureKey, meta, aiEnabled, descriptionCache, exceptAi>>

\* a request settles.  Aborted: the fetch rejects with an AbortError and the
\* state is left alone, or the response was complete already, the description
\* is cached and the state is left alone (signal.aborted).  Not aborted: a
\* description is cached and set, an empty one is set, or an error is set.
RequestSettles ==
  \E r \in requests, outcome \in {"description", "empty", "error", "abort"} :
    /\ r.aborted <=> outcome \in {"abort"} \/ (r.aborted /\ outcome = "description")
    /\ requests' = requests \ {r}
    /\ descriptionCache' =
         IF outcome = "description" THEN descriptionCache \cup {r.key}
         ELSE descriptionCache
    /\ aiState' =
         IF r.aborted THEN aiState
         ELSE CASE outcome = "description" ->
                     [description |-> Some(r.key), isLoading |-> FALSE, error |-> FALSE]
                [] outcome = "empty" ->
                     [description |-> None, isLoading |-> FALSE, error |-> FALSE]
                [] OTHER ->
                     [description |-> None, isLoading |-> FALSE, error |-> TRUE]
    /\ UNCHANGED <<featureKey, meta, aiEnabled, timeoutId, exceptAi>>

NextAi ==
  \/ ChangeProps
  \/ TimerFires
  \/ RequestSettles

SpecAi == Init /\ [][NextAi]_vars

\* a timer that stays set fires, and a request that stays in flight settles
SpecAiFair == SpecAi /\ WF_vars(TimerFires) /\ WF_vars(RequestSettles)

(***************************************************************************)
(* Properties                                                              *)
(***************************************************************************)
\* x and y name the same meridian
SameMeridian(x, y) == (x - y) % Deg(360) = 0

\* x is the representative its library keeps for convention c: the east-180
\* domain of geodesy.ts is (-180, 180], the EAST_180 domain of the projection
\* library is [-180, 180), and every 360 domain is [0, 360)
Representative(x, c) ==
  CASE c = "east-180" -> Deg(-180) < x /\ x <= Deg(180)
    [] c = "EAST_180" -> Deg(-180) <= x /\ x < Deg(180)
    [] OTHER -> 0 <= x /\ x < Deg(360)

C3_CanonicalHalfOpen ==
  call = "canonicalize" => (Deg(-180) <= ret.lon /\ ret.lon < Deg(180))

\* wrapLongitude180 of geodesy.ts applied to -180 has returned +180
C3_Witness ==
  /\ call = "canonicalize"
  /\ args.fn = "geodesy.wrapLongitude180" /\ args.value = Deg(-180)
  /\ ret.lon = Deg(180)

\* C1: with corrections disabled and a latitude between the poles, the pixel
\* of (lat, lon) maps back to the same latitude and to the one representative
\* in (-180, 180] of the same meridian, for every context and image size.
C1_ProjectionRoundTrip ==
  (call = "projectionRoundTrip" /\ Deg(-90) <= args.lat /\ args.lat <= Deg(90))
    => /\ ret.geo.lat = args.lat
       /\ SameMeridian(ret.geo.lon, args.lon)
       /\ Representative(ret.geo.lon, "east-180")

\* the south pole on the date line, given as -180, on the largest image
C1_Witness ==
  /\ call = "projectionRoundTrip"
  /\ args.context.datasetId = "mars:mars_hirise"
  /\ args.lat = Deg(-90) /\ args.lon = Deg(-180)
  /\ ret.pixel = [x |-> Px(524288), y |-> Px(1048576)]
  /\ ret.geo = [lat |-> Deg(-90), lon |-> Deg(180)]

Clamped(lat) == IF lat < Deg(-90) THEN Deg(-90) ELSE IF lat > Deg(90) THEN Deg(90) ELSE lat

\* u and v of the forward projection just applied, and the east-positive
\* longitude relative to the prime and central meridians
ForwardU == IF call = "projectionRoundTrip" THEN ret.normalized.u ELSE ret.normalized.x

ForwardV == IF call = "projectionRoundTrip" THEN ret.normalized.v ELSE ret.normalized.y

ForwardRelativeLon ==
  IF call = "projectionRoundTrip"
    THEN args.lon - args.context.projection.primeMeridianOffsetDeg
                  - args.context.projection.centralMeridianDeg
    ELSE args.lon - BODY_METADATA[args.body].centralMeridian

ForwardCalls == {"projectionRoundTrip", "lonLatToImagePoint"}

ForwardNativeConvention ==
  IF call = "projectionRoundTrip"
    THEN args.context.projection.nativeConvention
    ELSE BODY_METADATA[args.body].nativeLonConvention

\* C4 as stated: u is L over 360 taken mod 1, where L is the relative
\* longitude in the native convention (negated for a west-positive one, in
\* either domain otherwise), and v = (90 - clamp(lat)) / 180.
C4_NativeLongitudeOver360 ==
  call \in ForwardCalls
    => /\ ForwardU = (IF ForwardNativeConvention = "west-360"
                        THEN -ForwardRelativeLon ELSE ForwardRelativeLon) % Deg(360)
       /\ ForwardV = Deg(90) - Clamped(args.lat)

\* C4: with no correction applied, v = (90 - clamp(lat)) / 180 and u is the
\* relative east-positive longitude over 360 taken mod 1, whatever convention
\* the dataset declares, shifted by half a turn for a body of the projection
\* library whose native convention is EAST_180; so 0 <= u < 1 and 0 <= v <= 1.
C4_ForwardFormula ==
  call \in ForwardCalls
    => /\ ForwardV = Deg(90) - Clamped(args.lat)
       /\ ForwardU =
            (ForwardRelativeLon
               + (IF call = "lonLatToImagePoint"
                       /\ BODY_METADATA[args.body].nativeLonConvention = "EAST_180"
                    THEN Deg(180) ELSE 0)) % Deg(360)
       /\ 0 <= ForwardU /\ ForwardU < Deg(360)
       /\ 0 <= ForwardV /\ ForwardV <= Deg(180)

\* the prime meridian at the north pole of the earth lands in mid-image
C4_Witness ==
  /\ call = "lonLatToImagePoint"
  /\ args.body = "earth" /\ args.lon = Deg(0) /\ args.lat = Deg(90)
  /\ ret.normalized = [x |-> Deg(180), y |-> 0]

UnitScale(correction) ==
  Opt(correction, "lat_scale", 1) = 1 /\ Opt(correction, "lon_scale", 1) = 1

\* C5: for a correction of unit scale, the inverse applied at the same zoom to
\* the output of the forward correction returns the original lat and lon.
C5_InverseInvertsForward ==
  (call = "alignmentRoundTrip" /\ UnitScale(args.data[args.datasetId]))
    => (ret.inverse.lat = args.lat /\ ret.inverse.lon = args.lon)

\* latitude 30 on the edge of a band [0, 30] of offset 2: the forward
\* correction leaves the band, and the inverse subtracts nothing
C5_Witness ==
  /\ call = "alignmentRoundTrip"
  /\ args.data[args.datasetId] =
       [dynamic |-> [lat_bands |->
          <<[min_lat |-> Deg(0), max_lat |-> Deg(30), lat_offset_deg |-> Deg(2)]>>]]
  /\ args.lat = Deg(30) /\ args.lon = Deg(0) /\ args.zoom = None
  /\ ret.forward.lat = Deg(32) /\ ret.inverse.lat = Deg(32)

\* C6: with corrections enabled and a resolved pixel offset that is not zero,
\* the pixel of (lat, lon) maps back, at the same zoom, to (lat, lon).
C6_PixelOffsetRoundTrip ==
  (call = "correctedRoundTrip"
     /\ (ret.offsets.pixelOffsetX # 0 \/ ret.offsets.pixelOffsetY # 0))
    => (ret.geo.lat = args.lat /\ SameMeridian(ret.geo.lon, args.lon))

\* a static pixel offset of (1024, -2048) alone: (0, 0) comes back as (22.5, 22.5)
C6_Witness ==
  /\ call = "correctedRoundTrip"
  /\ args.data[args.context.datasetId] = [pixel_offset |-> [x |-> Px(1024), y |-> Px(-2048)]]
  /\ args.lat = Deg(0) /\ args.lon = Deg(0) /\ args.options = Undefined
  /\ ret.pixel = [x |-> Px(1024), y |-> Px(6144)]
  /\ ret.geo = [lat |-> Deg(45) \div 2, lon |-> Deg(45) \div 2]

\* the offset fields, and the value of field f in a record of offsets
OffsetFields == {"lat", "lon", "x", "y"}

FieldOf(entry, f) ==
  CASE f = "lat" -> Opt(entry, "lat_offset_deg", 0)
    [] f = "lon" -> Opt(entry, "lon_offset_deg", 0)
    [] f = "x" -> Opt(Opt(entry, "pixel_offset", Undefined), "x", 0)
    [] f = "y" -> Opt(Opt(entry, "pixel_offset", Undefined), "y", 0)

Resolved(f) ==
  CASE f = "lat" -> ret.latOffset [] f = "lon" -> ret.lonOffset
    [] f = "x" -> ret.pixelOffsetX [] f = "y" -> ret.pixelOffsetY

BandsOf(correction) == Opt(Opt(correction, "dynamic", Undefined), "lat_bands", <<>>)

BreakpointsOf(correction) ==
  LET levels == Opt(Opt(correction, "dynamic", Undefined), "zoom_levels", <<>>)
  IN  {levels[i] : i \in 1 .. Len(levels)}

\* the offsets of the first n bands whose closed interval contains lat, summed
RECURSIVE SumOfBands(_, _, _, _)
SumOfBands(bands, n, lat, f) ==
  IF n = 0 THEN 0
  ELSE SumOfBands(bands, n - 1, lat, f)
         + (IF bands[n].min_lat <= lat /\ lat <= bands[n].max_lat THEN FieldOf(bands[n], f) ELSE 0)

\* the interpolation of field f at zoom z between the breakpoints B: the
\* nearest breakpoint at or below z and the nearest at or above z, or the
\* first or the last breakpoint when z is outside their range
Interpolated(B, z, f) ==
  LET below == {b \in B : b.zoom <= z}
      above == {b \in B : b.zoom >= z}
      first == CHOOSE b \in B : \A o \in B : b.zoom <= o.zoom
      last == CHOOSE b \in B : \A o \in B : o.zoom <= b.zoom
      lo == CHOOSE b \in below : \A o \in below : o.zoom <= b.zoom
      hi == CHOOSE b \in above : \A o \in above : b.zoom <= o.zoom
  IN  IF below = {} THEN FieldOf(first, f)
      ELSE IF above = {} THEN FieldOf(last, f)
      ELSE IF lo.zoom = hi.zoom THEN FieldOf(lo, f)
      ELSE FieldOf(lo, f)
             + ((FieldOf(hi, f) - FieldOf(lo, f)) * (z - lo.zoom)) \div (hi.zoom - lo.zoom)

ZoomApplies == args.zoom # None /\ BreakpointsOf(args.correction) # {}

ZoomPart(f) ==
  IF ZoomApplies THEN Interpolated(BreakpointsOf(args.correction), args.zoom[1], f) ELSE 0

BandPart(f) ==
  SumOfBands(BandsOf(args.correction), Len(BandsOf(args.correction)), args.lat, f)

\* the breakpoints (zoom 2, latitude offset 10) and (zoom 6, latitude offset 20)
ExampleBreakpoints ==
  {b \in BreakpointSamples : b.zoom \in {2, 6}}

C8_BandSummation ==
  call = "resolveDynamicOffsets"
    => \A f \in {"lat", "lon"} :
         Resolved(f) = FieldOf(args.correction, f) + BandPart(f) + ZoomPart(f)

\* latitude 30 lies in both bands, [0, 30] and [20, 60]: both offsets add up
C8_Witness ==
  /\ call = "resolveDynamicOffsets"
  /\ Len(BandsOf(args.correction)) = 2
  /\ \A i \in 1 .. 2 : BandsOf(args.correction)[i].min_lat <= Deg(30)
                         /\ Deg(30) <= BandsOf(args.correction)[i].max_lat
  /\ DOMAIN args.correction = {"dynamic"}
  /\ args.lat = Deg(30) /\ args.zoom = None
  /\ ret.latOffset = Deg(6) /\ ret.lonOffset = Deg(-6)

TileCalls == {"createTileSource.getTileUrl", "tileSource.getTileUrl", "backend.getTileUrl"}

OnGrid == 0 <= args.y /\ args.y < 2 ^ args.level

\* the pieces of the URL that replace the column and the row placeholders
ColumnPieces == {ret.url[i] : i \in {j \in 1 .. Len(args.template) : args.template[j] \in {"{col}", "{x}"}}}

RowPieces == {ret.url[i] : i \in {j \in 1 .. Len(args.template) : args.template[j] \in {"{row}", "{y}"}}}

\* C9: on the grid, the tile one world width to the east has the same
\* address, whose column is x modulo 2^level; one row above the grid and one
\* row below it there is no tile, for x and for x + 2^level.
C9_TileWrap ==
  call \in TileCalls
    => /\ OnGrid => /\ ret.url # <<>>
                    /\ ret.east = ret.url
                    /\ ColumnPieces = {ToString(args.x % (2 ^ args.level))}
       /\ (args.y = -1 \/ args.y = 2 ^ args.level) => (ret.url = <<>> /\ ret.east = <<>>)

\* column -3 of level 2 is column 1, as is column 1 itself
C9_Witness ==
  /\ call = "createTileSource.getTileUrl"
  /\ args.dataset.id = "mars:mars_mgs_mola"
  /\ args.level = 2 /\ args.x = -3 /\ args.y = 1
  /\ ColumnPieces = {"1"} /\ RowPieces = {"1"}
  /\ ret.east = ret.url

\* C10: the row of the address is 2^level - 1 - y for a dataset declared
\* south-up and y for one declared north-down, whatever its template.
C10_RowFromMetadata ==
  (call = "createTileSource.getTileUrl" /\ OnGrid)
    => RowPieces = {ToString(IF args.dataset.tiling.yAxis = "south-up"
                               THEN 2 ^ args.level - 1 - args.y ELSE args.y)}

\* a dataset declared south-up on a template that is not of GIBS: row 0 of
\* level 1 is addressed as row 0
C10_Witness ==
  /\ call = "createTileSource.getTileUrl"
  /\ args.dataset.tiling.yAxis = "south-up"
  /\ ~includes(args.template, GIBS_HOST)
  /\ args.level = 1 /\ args.y = 0
  /\ RowPieces = {"0"}

LookupCalls == {"canvas-double-click", "handleReverseSearch"}

\* the feature and the distance that the reverse lookup just returned
Found == IF call = "canvas-double-click" THEN ret.best ELSE ret.nearestFeature

FoundDistance == IF call = "canvas-double-click" THEN ret.bestDistance ELSE ret.minDistance

\* sin^2 of half the great-circle angle between the query point and feature
\* f, in millionths: the measure of the haversine formula, which grows with
\* the distance
GreatCircle(f) ==
  LET dLat == Abs(f.lat - args.lat) \div Deg(1)
      turn == (Abs(f.lon - args.lon) \div Deg(1)) % 360
      dLon == IF turn > 180 THEN 360 - turn ELSE turn
      cosines == (CosineTable[Abs(args.lat) \div Deg(1) + 1]
                    * CosineTable[Abs(f.lat) \div Deg(1) + 1]) \div 1000
  IN  HaversineTable[dLat + 1] + (cosines * HaversineTable[dLon + 1]) \div 1000

NamesOf(features) == {features[i].name : i \in 1 .. Len(features)}

\* C11: for a non-empty feature list the reverse lookup returns a feature of
\* the list that is at least as near, along the great circle, as every other
\* one; of the Mars features A(0,0), B(10,10), C(-5,-5) the query (1,1) finds
\* A and the query (-4,-4) finds C, and D(0,350) is found across the prime
\* meridian from (0,-6).
C11_NearestFeature ==
  (call \in LookupCalls /\ Len(args.features) > 0)
    => /\ \E i \in 1 .. Len(args.features) : Found = args.features[i]
       /\ \A i \in 1 .. Len(args.features) : GreatCircle(Found) <= GreatCircle(args.features[i])
       /\ NamesOf(args.features) = {"A", "B", "C"}
            => /\ (args.lat = Deg(1) /\ args.lon = Deg(1)) => Found.name = "A"
               /\ (args.lat = Deg(-4) /\ args.lon = Deg(-4)) => Found.name = "C"
       /\ ("D" \in NamesOf(args.features) /\ args.lat = Deg(0) /\ args.lon = Deg(-6))
            => Found.name = "D"

\* the Mars example with the nearest feature last in the list
C11_Witness ==
  /\ call = "handleReverseSearch"
  /\ args.body = "mars"
  /\ args.lat = Deg(-4) /\ args.lon = Deg(-4)
  /\ Len(args.features) = 3 /\ args.features[3].name = "C"
  /\ ret.nearestFeature = [name |-> "C", lat |-> Deg(-5), lon |-> Deg(-5)]

\* the mean radius of a body in tenths of a kilometre, from the table of the
\* component that made the lookup
MeanRadius(body) ==
  IF call = "canvas-double-click"
    THEN PLANETARY_BODIES[body].meanRadiusMeters \div 100
    ELSE BODY_RADII_KM[body]

\* C12: the distance of a reverse lookup on body b is the central angle to
\* the feature found times the mean radius of b itself.
C12_OwnRadius ==
  (call \in LookupCalls /\ Len(args.features) > 0)
    => FoundDistance = MeanRadius(args.body) * centralAngle(GreatCircle(Found))

\* a double click on Mars measures with the radius 6371 km
C12_Witness ==
  /\ call = "canvas-double-click"
  /\ args.body = "mars"
  /\ args.lat = Deg(1) /\ args.lon = Deg(1)
  /\ args.features = <<[name |-> "A", lat |-> Deg(0), lon |-> Deg(0)]>>
  /\ ret.bestDistance = 63710 * centralAngle(GreatCircle(ret.best))
  /\ ret.bestDistance # 33895 * centralAngle(GreatCircle(ret.best))

\* C13: two registered datasets with the same compatibility key place every
\* (lat, lon) at the same pixel (x, y), each with its own projection context
\* and image dimensions, under one correction table.
C13_CompatiblePixels ==
  (call = "placeOnBoth" /\ ret.compatible) => ret.primary = ret.secondary

\* the Moon's global mosaic (zoom 0 .. 6) and its Apollo landing sites
\* (zoom 2 .. 12) share a key and place (0, 90) at different pixels
C13_Witness ==
  /\ call = "placeOnBoth"
  /\ args.primaryId = "moon:lro_wac_global" /\ args.secondaryId = "moon:lro_nac_apollo"
  /\ args.lat = Deg(0) /\ args.lon = Deg(90) /\ args.data = <<>>
  /\ ret.compatible
  /\ ret.primary = [x |-> Px(4096), y |-> Px(8192)]
  /\ ret.secondary = [x |-> Px(65536), y |-> Px(131072)]

Registered(id) == \E i \in 1 .. Len(SOLAR_SYSTEM_DATASETS) : SOLAR_SYSTEM_DATASETS[i].id = id

KeyOf(id) ==
  SOLAR_SYSTEM_DATASETS[CHOOSE i \in 1 .. Len(SOLAR_SYSTEM_DATASETS) :
                          SOLAR_SYSTEM_DATASETS[i].id = id].compatibilityKey

Aligned(primaryId, secondaryId) ==
  Registered(primaryId) /\ Registered(secondaryId) /\ KeyOf(primaryId) = KeyOf(secondaryId)

\* C14: areDatasetsCompatible holds of two ids only if both are registered
\* with equal compatibility keys, whatever their templates; and in every
\* state of the map a split viewer exists, or is being set up, only for a
\* split dataset that is registered with the key of the base dataset.
C14_SplitOnlyCompatible ==
  /\ \A p \in IdSamples, q \in IdSamples : areDatasetsCompatible(p, q) => Aligned(p, q)
  /\ splitViewerRef # NoId
       => /\ splitViewEnabled
          /\ splitViewerRef = splitLayerId
          /\ Aligned(baseDatasetId, splitLayerId)
  /\ \A s \in splitSetups :
       ~s.cancelled => (s.dataset = splitLayerId /\ Aligned(baseDatasetId, splitLayerId))

\* a split viewer on the Moon's Apollo sites beside the Moon's global mosaic
C14_Witness ==
  /\ viewerRef = "moon:lro_wac_global"
  /\ baseDatasetId = "moon:lro_wac_global"
  /\ splitLayerId = "moon:lro_nac_apollo"
  /\ splitViewerRef = "moon:lro_nac_apollo"

\* C15: at most one gazetteer load per body is in flight at any time, in
\* TileViewer and in PlanetaryMap.
C15_OneLoadPerBody ==
  /\ \A body \in LoadBodies : pendingLoads[body] <= 1
  /\ \A body \in DOMAIN pendingImports : pendingImports[body] <= 1

\* the search for "tycho" starts a second load of the Moon's gazetteer while
\* the load of the feature loading effect is in flight
C15_Witness ==
  /\ selectedBody = "moon"
  /\ searchText = "tycho"
  /\ debounceTimer = None
  /\ pendingLoads["moon"] = 2

\* C18: getAlignmentCorrectionForLayer returns the record stored under the
\* layer id when there is one, otherwise the record stored under
\* body:<body>, otherwise no correction.
C18_LookupPrecedence ==
  call = "getAlignmentCorrectionForLayer"
    => LET stored == DOMAIN args.corrections
           bodyKeys == {k \in stored : k = "body:" \o args.body}
           layerKeys == {k \in stored : k = args.layerId /\ args.layerId # ""}
       IN  /\ layerKeys # {} => \A k \in layerKeys : ret.correction = args.corrections[k]
           /\ (layerKeys = {} /\ bodyKeys # {})
                => \A k \in bodyKeys : ret.correction = args.corrections[k]
           /\ (layerKeys = {} /\ bodyKeys = {}) => ret.correction = Null

\* the record of the layer is returned although the Moon has another one
C18_Witness ==
  /\ call = "getAlignmentCorrectionForLayer"
  /\ args.layerId = "lro_wac_global" /\ args.body = "moon"
  /\ {"lro_wac_global", "body:moon"} \subseteq DOMAIN args.corrections
  /\ args.corrections["lro_wac_global"] # args.corrections["body:moon"]
  /\ ret.correction = args.corrections["lro_wac_global"]

\* what a lookup of the correction of a layer returns now
\* (getCurrentAlignmentCorrection for marker, grid and reference markers)
Lookup(layerId) == getAlignmentCorrectionForLayer(layerId, selectedBody, correctionsRef)

\* the pixel offset that a correction applies: none is no offset
OffsetOf(correction) ==
  IF "pixelOffset" \in DOMAIN correction THEN correction.pixelOffset ELSE [x |-> 0, y |-> 0]

\* C16: after any sequence of persists and resets, a lookup of the correction
\* of a layer returns the pixel offset of the last persist on that layer, or
\* the default (body-level) record when the last operation on it was a reset.
C16_LastCommitted ==
  \A layerId \in EditedLayers :
    /\ committed[layerId].op = "persist"
         => OffsetOf(Lookup(layerId)) = [x |-> committed[layerId].x, y |-> committed[layerId].y]
    /\ committed[layerId].op = "reset"
         => Lookup(layerId)
              = getAlignmentCorrectionForLayer(layerId, selectedBody, DEFAULT_ALIGNMENT_CORRECTIONS)
    /\ committed[layerId].op = "none"
         => Lookup(layerId)
              = getAlignmentCorrectionForLayer(layerId, selectedBody, mergedCorrections(objects[1]))

\* a second persist on a layer replaced the offset of the first
C16_Witness ==
  /\ Len(objects) = 3
  /\ objects[2] = ("lro_wac_global" :> [pixelOffset |-> [x |-> Px(5), y |-> Px(0)]])
  /\ committed["lro_wac_global"] = [op |-> "persist", x |-> Px(8), y |-> Px(-3)]
  /\ Lookup("lro_wac_global") = [pixelOffset |-> [x |-> Px(8), y |-> Px(-3)]]

\* the layers whose record differs between two corrections maps
Differing(old, new) ==
  {k \in DOMAIN old \cup DOMAIN new : Opt(old, k, Null) # Opt(new, k, Null)}

\* C17: a persist or a reset publishes a new corrections map that differs from
\* the one published before in the record of the selected layer only; no map
\* created earlier is changed, and every record of the new map is a whole
\* record, both coordinates from one persist.
C17_CopyOnWrite ==
  [][/\ Len(objects') >= Len(objects)
     /\ \A o \in DOMAIN objects : objects'[o] = objects[o]
     /\ Differing(objects[alignmentOverrides], objects'[alignmentOverrides']) # {}
          => /\ alignmentOverrides' \notin DOMAIN objects
             /\ Differing(objects[alignmentOverrides], objects'[alignmentOverrides'])
                  \subseteq {selectedLayerId}
             /\ Differing(correctionsRef, correctionsRef') \subseteq {selectedLayerId}
             /\ correctionsRef' = mergedCorrections(objects'[alignmentOverrides'])
             /\ selectedLayerId \in DOMAIN objects'[alignmentOverrides']
                  => objects'[alignmentOverrides'][selectedLayerId].pixelOffset
                       = [x |-> committed'[selectedLayerId].x, y |-> committed'[selectedLayerId].y]]_vars

\* both coordinates of a layer were replaced in a new map, and the map
\* published before still holds the whole old record
C17_Witness ==
  /\ Len(objects) = 3
  /\ alignmentOverrides = 3
  /\ objects[2] = ("lro_wac_global" :> [pixelOffset |-> [x |-> Px(5), y |-> Px(-3)]])
  /\ objects[3] = ("lro_wac_global" :> [pixelOffset |-> [x |-> Px(8), y |-> Px(0)]])
  /\ correctionsRef["lro_wac_global"] = [pixelOffset |-> [x |-> Px(8), y |-> Px(0)]]

\* C19: for a dataset id without a correction record, the forward and the
\* inverse correction return lat and lon unchanged and pixel offsets 0, for
\* every lat, lon and zoom.
C19_UnknownIsIdentity ==
  call = "uncorrectedDataset"
    => LET identity == [lat |-> args.lat, lon |-> args.lon, pixelOffsetX |-> 0, pixelOffsetY |-> 0]
       IN  ret.forward = identity /\ ret.inverse = identity

\* an unregistered dataset, a table that corrects another dataset, a zoom
C19_Witness ==
  /\ call = "uncorrectedDataset"
  /\ args.datasetId = "custom:unregistered"
  /\ DOMAIN args.data = {CorrectedDataset.id}
  /\ args.lat = Deg(45) /\ args.lon = Deg(170) /\ args.zoom = Some(2)
  /\ ret.forward.lat = Deg(45) /\ ret.forward.lon = Deg(170)
  /\ ret.inverse.lat = Deg(45) /\ ret.inverse.lon = Deg(170)

\* the record with 0 in the place of every absent field among fields
ZeroFilledNumbers(r, fields) == [f \in DOMAIN r \cup fields |-> IF f \in DOMAIN r THEN r[f] ELSE 0]

\* the offsets of a record, a band or a breakpoint with 0 for the absent ones
ZeroFilledOffsets(r) ==
  LET numbers == ZeroFilledNumbers(r, {"lat_offset_deg", "lon_offset_deg"})
  IN  With(numbers, "pixel_offset", ZeroFilledNumbers(Opt(r, "pixel_offset", <<>>), {"x", "y"}))

ZeroFilledAll(entries) == [i \in 1 .. Len(entries) |-> ZeroFilledOffsets(entries[i])]

\* the correction record with 0 for every absent numeric offset field
ZeroFilled(correction) ==
  IF "dynamic" \in DOMAIN correction
    THEN With(ZeroFilledOffsets(correction), "dynamic",
              [f \in DOMAIN correction.dynamic |-> ZeroFilledAll(correction.dynamic[f])])
    ELSE ZeroFilledOffsets(correction)

\* C20: the offsets resolved for a correction record that lacks any of its
\* optional numeric fields are numbers, equal to the offsets resolved for
\* the record with 0 in the place of each absent field.
C20_MissingIsZero ==
  call = "resolveDynamicOffsets"
    => /\ ret = resolveDynamicOffsets(ZeroFilled(args.correction), args.lat, args.zoom)
       /\ \A f \in {"latOffset", "lonOffset", "pixelOffsetX", "pixelOffsetY"} : ret[f] \in Int

\* the upper breakpoint lacks its longitude offset and the y of its pixel
\* offset: halfway between the breakpoints half of the lower ones remains
C20_Witness ==
  /\ call = "resolveDynamicOffsets"
  /\ args.lat = Deg(-45) /\ args.zoom = Some(4)
  /\ DOMAIN args.correction = {"lat_offset_deg", "lon_offset_deg", "pixel_offset", "dynamic"}
  /\ DOMAIN args.correction.dynamic = {"lat_bands", "zoom_levels"}
  /\ Len(args.correction.dynamic.zoom_levels) = 2
  /\ DOMAIN args.correction.dynamic.zoom_levels[2] = {"zoom", "lat_offset_deg", "pixel_offset"}
  /\ DOMAIN args.correction.dynamic.zoom_levels[2].pixel_offset = {"x"}
  /\ ret = [latOffset |-> Deg(5) + Deg(15), lonOffset |-> Deg(-10) + Deg(2),
            pixelOffsetX |-> Px(1024), pixelOffsetY |-> Px(-2048) + Px(2048)]

\* the latitudes of [-90, 90] that may stand for a given one, and the
\* longitude that stands for a given one
ClampedNumbers(lat) ==
  IF isFinite(lat) THEN {normalizeLatitude(lat[1])} ELSE {Deg(-90), Deg(0), Deg(90)}

FiniteOrZero(lon) == IF isFinite(lon) THEN lon[1] ELSE 0

\* C21: for every latitude and longitude, NaN and the infinities included,
\* both conversions from lat/lon to pixels return finite coordinates: those
\* of a latitude clamped into [-90, 90] and of longitude 0 in the place of
\* one that is not finite.
C21_FinitePixels ==
  /\ call = "lonLatToImagePointOfNumber"
       => /\ isFinite(ret.x) /\ isFinite(ret.y)
          /\ \E lat \in ClampedNumbers(args.lat) :
               ret = Bind(lonLatToImagePoint(FiniteOrZero(args.lon), lat, args.body, args.dims,
                                             args.options),
                          LAMBDA point : [x |-> <<point.x>>, y |-> <<point.y>>])
  /\ call = "latLonToPixelOfNumber"
       => /\ isFinite(ret.x) /\ isFinite(ret.y)
          /\ \E lat \in ClampedNumbers(args.lat) :
               ret = Bind(latLonToPixel(args.data, lat, FiniteOrZero(args.lon),
                                        args.context, args.dimensions, <<>>),
                          LAMBDA pixel : [x |-> <<pixel.x>>, y |-> <<pixel.y>>])

\* latLonToPixel of a NaN latitude returns a NaN y
C21_Witness ==
  /\ call = "latLonToPixelOfNumber"
  /\ args.lat = NaN /\ args.lon = <<Deg(135)>>
  /\ isFinite(ret.x)
  /\ ret.y = NaN

\* the store fails to give a corrections map: getItem throws or the item is
\* a text that JSON.parse rejects
ReadFails(window) ==
  /\ window.defined
  /\ \/ "throws" \in DOMAIN window.getItem
     \/ "text" \in DOMAIN window.getItem /\ window.getItem.text \notin {"", "null"}

\* C22: when reading the stored corrections throws or gives unparsable text
\* loadStoredCorrections returns the empty map and a point projects to its
\* uncorrected pixel; when writing throws saveStoredCorrections returns
\* normally and the stored item is as before.
C22_StoreFailureCaught ==
  call = "projectWithStore"
    => /\ ReadFails(args.window)
            => /\ ret.loaded = Returned(<<>>)
               /\ ret.point = lonLatToImagePoint(args.lon, args.lat, args.body, args.dims,
                                                 [sourceConvention |-> "EAST_180"])
       /\ (args.window.defined /\ args.window.setItem = "throws")
            => ~ret.saved.threw /\ ret.saved.item = args.window.getItem

\* getItem throws and setItem throws: the point is the uncorrected one
C22_Witness ==
  /\ call = "projectWithStore"
  /\ "throws" \in DOMAIN args.window.getItem /\ args.window.setItem = "throws"
  /\ args.layerId = "lro_wac_global" /\ args.body = "moon"
  /\ args.lat = Deg(30) /\ args.lon = Deg(135)
  /\ ret.loaded.value = <<>>
  /\ ret.point = [x |-> TimesWidth(Deg(135), args.dims.width),
                  y |-> TimesHeight(Deg(60), args.dims.height)]
  /\ ~ret.saved.threw

\* the context with both meridian offsets 0
WithoutOffsets(context) ==
  [context EXCEPT !.projection.primeMeridianOffsetDeg = 0, !.projection.centralMeridianDeg = 0]

\* C23: the forward projection subtracts the prime-meridian offset and the
\* central meridian from the canonical longitude before it converts to the
\* texture domain: u is the u that the longitude less both offsets has in the
\* projection with both offsets 0, so a longitude equal to their sum (mod 360)
\* has the u of longitude 0.
C23_OffsetsBeforeDomain ==
  /\ call = "projectionRoundTrip"
       => LET pr == args.context.projection
              relative == args.lon - pr.primeMeridianOffsetDeg - pr.centralMeridianDeg
              plain(lon) == latLonToNormalized(<<>>, args.lat, lon, WithoutOffsets(args.context),
                                               args.options).u
          IN  /\ ret.normalized.u = plain(relative)
              /\ SameMeridian(relative, 0) => ret.normalized.u = plain(0)
  /\ call = "lonLatToImagePoint"
       => LET relative == args.lon - BODY_METADATA[args.body].centralMeridian
          IN  SameMeridian(relative, 0)
                => ret.normalized.x = imagePointNormalized(0, args.lat, args.body, args.options).x

\* prime-meridian offset -135 and central meridian 90: longitude -45 has u 0
C23_Witness ==
  /\ call = "projectionRoundTrip"
  /\ args.context.projection.primeMeridianOffsetDeg = Deg(-135)
  /\ args.context.projection.centralMeridianDeg = Deg(90)
  /\ args.lon = Deg(-45)
  /\ ret.normalized.u = 0

\* C24: once featuresCache holds a list for a body, no step replaces or
\* removes it and no load of that body starts.
C24_CachedForLifetime ==
  [][\A body \in DOMAIN featuresCache :
       featuresCache[body] # None
         => /\ featuresCache'[body] = featuresCache[body]
            /\ pendingImports'[body] <= pendingImports[body]]_vars

\* the list of Ceres is cached while a second load of Ceres is in flight
C24_Witness ==
  /\ featuresCache["ceres"] # None
  /\ pendingImports["ceres"] = 1

\* C25: once no gazetteer load is in flight, the feature list displayed is
\* not the list of a body other than the selected one: the result of a load
\* started for a body selected before is never kept.
C25_NoStaleFeatures ==
  (Total(pendingLoads, LoadBodies) = 0 /\ viewerFeatures # None)
    => viewerFeatures[1] = selectedBody

\* Mars is selected, both loads have completed, the Moon's one last
C25_Witness ==
  /\ selectedBody = "mars"
  /\ Total(pendingLoads, LoadBodies) = 0
  /\ debounceTimer = None
  /\ viewerFeatures = Some("moon")

\* the first zoom level of the dataset or layer of the tile request, and
\* the pieces of the URL that replace the zoom placeholder
MinZoomOf ==
  IF call = "createTileSource.getTileUrl" THEN args.dataset.tiling.minZoom
  ELSE Opt(args.layerConfig, "min_zoom", 0)

ZoomPieces == {ret.url[i] : i \in {j \in 1 .. Len(args.template) : args.template[j] = "{z}"}}

GridIndices == {ToString(n) : n \in 0 .. 2 ^ args.level - 1}

\* C26: for every dataset, level, x and y on the grid of the level, the URL
\* carries z = level + minZoom, a column in 0 .. 2^level - 1 and a row in
\* 0 .. 2^level - 1.
C26_TileInsideGrid ==
  (call \in TileCalls /\ OnGrid)
    => /\ ZoomPieces = {ToString(args.level + MinZoomOf)}
       /\ ColumnPieces \subseteq GridIndices
       /\ RowPieces \subseteq GridIndices

\* a GIBS template with a first zoom level of 1: the only tile of level 0 is
\* addressed as row 1
C26_Witness ==
  /\ call = "createTileSource.getTileUrl"
  /\ includes(args.template, GIBS_HOST)
  /\ args.dataset.tiling.minZoom = 1
  /\ args.level = 0 /\ args.x = 0 /\ args.y = 0
  /\ ZoomPieces = {"1"} /\ ColumnPieces = {"0"} /\ RowPieces = {"1"}

\* the whole degrees east that a label names
DegreesEast(label) ==
  LET n == CHOOSE k \in 0 .. 360 : ToString(k) = label.number
  IN  IF label.suffix = "W" THEN -n ELSE n

\* C27: canonicalToDisplay(canonical, "east-360") lies in [0, 360) and is the
\* input's meridian (congruent to it modulo 360), and formatLongitude names
\* the same meridian in east-360 mode as in east-180 mode.
C27_DisplaySameMeridian ==
  call = "canonicalToDisplay"
    => /\ 0 <= ret.display["east-360"] /\ ret.display["east-360"] < Deg(360)
       /\ SameMeridian(ret.display["east-360"], args.canonicalValue)
       /\ (DegreesEast(ret.label["east-360"]) - DegreesEast(ret.label["east-180"])) % 360 = 0

\* the prime meridian is displayed as 180 and labelled 180 E in east-360 mode
C27_Witness ==
  /\ call = "canonicalToDisplay"
  /\ args.canonicalValue = Deg(0)
  /\ ret.display["east-360"] = Deg(180)
  /\ ret.label["east-360"] = [number |-> "180", suffix |-> "E"]
  /\ ret.label["east-180"] = [number |-> "0", suffix |-> "E"]

\* C28: the convention is inferred as EAST_360 exactly for |v| > 180, and a
\* gazetteer longitude canonicalized under the inferred convention is the
\* canonical longitude that the declared convention EAST_360 gives.
C28_InferredAsDeclared ==
  call = "fetchGazetteerKMZ"
    => /\ ret.inferred = "EAST_360" <=> (args.lonRaw > Deg(180) \/ args.lonRaw < Deg(-180))
       /\ ret.canonicalLon = ret.declared

\* longitude 180: -180 under the inferred convention, 180 under EAST_360
C28_Witness ==
  /\ call = "fetchGazetteerKMZ"
  /\ args.lonRaw = Deg(180)
  /\ ret.inferred = "EAST_180"
  /\ ret.canonicalLon = Deg(-180)
  /\ ret.declared = Deg(180)

\* C29: at most one live main viewer is attached to the viewer container: the
\* viewer effect and the split/overlay effect never both hold a viewer that
\* is not destroyed, and the viewer effect holds one only for a
\* backend-sourced config (an id without a colon).
C29_OneLiveViewer ==
  /\ ~(osdViewer # None /\ mainViewer # None)
  /\ osdViewer # None => ~includesColon(osdViewer[1])

\* a template layer is selected and both imports resolved while its effects
\* were mounted: each effect created its viewer for the same config
C29_Witness ==
  /\ includesColon(tileLayerId)
  /\ tileLayerConfig = Some(tileLayerId)
  /\ osdSetups = {} /\ templateSetups = {}
  /\ osdViewer = Some(tileLayerId)
  /\ mainViewer = Some(tileLayerId)

\* no fetch is scheduled and none is in flight
Quiescent == timeoutId = None /\ requests = {}

\* C30: useAiDescription never stays stuck loading: once no fetch is
\* scheduled or in flight, isLoading eventually becomes false, also when
\* enabled turned false or meta became undefined while a fetch was pending.
C30_NeverStuckLoading == Quiescent ~> ~aiState.isLoading

\* the hook was disabled or lost its meta while a fetch was pending: nothing
\* is scheduled or in flight and isLoading is still true
C30_Witness ==
  /\ ~aiEnabled \/ meta = None
  /\ Quiescent
  /\ aiState.isLoading

====
